---- MODULE Spec2Model ----
(***************************************************************************)
(* rebAIser: the rebase orchestration pipeline (cmd/rebAIser/main.go), the *)
(* conflict extractor (internal/git/service.go) and the test runner        *)
(* (internal/test/service.go), as a state machine.                         *)
(*                                                                         *)
(* Strings are modelled as sequences of atoms (short strings): an atom is  *)
(* a piece of text that no searched-for substring straddles, so that       *)
(* strings.Contains and strings.HasPrefix are computed on the sequences.   *)
(* A Go error is its message; the nil error is the empty sequence.         *)
(***************************************************************************)
EXTENDS Integers, Sequences, FiniteSets, TLC

\* ---------------------------------------------------------------- bounds
\* Runs the scheduler may start before the model stops starting new ones.
MaxRuns == 2
\* Seconds the wall clock may advance (time.Now().Unix() is 0..MaxTime).
MaxTime == 1
\* Files the unmerged listing of a working tree may name.
MaxFiles == 2
\* Lines of a file given to the conflict extractor alone.
MaxLines == 5
\* Conflict regions in one file of the multi-region trees.
MaxRegions == 2

\* ------------------------------------------------------------------ text
nil == <<>>

\* strings.Contains(h, n) on atom sequences: n is a contiguous part of h.
Contains(h, n) ==
  \E i \in 0..(Len(h) - Len(n)) : SubSeq(h, i + 1, i + Len(n)) = n

\* strings.HasPrefix(s, p)
HasPrefix(s, p) == Len(p) <= Len(s) /\ SubSeq(s, 1, Len(p)) = p

DigitChars == <<"0", "1", "2", "3", "4", "5", "6", "7", "8", "9">>

\* fmt's %d of a non-negative integer: its decimal digits.
RECURSIVE Itoa(_)
Itoa(n) == IF n < 10 THEN <<DigitChars[n + 1]>>
           ELSE Itoa(n \div 10) \o <<DigitChars[(n % 10) + 1]>>

\* fmt.Errorf(prefix + "%w", e)
Errorf(prefix, e) == prefix \o e

\* strings.Join(elems, sep) where every element is one atom.
RECURSIVE Join(_, _)
Join(elems, sep) ==
  IF elems = <<>> THEN <<>>
  ELSE IF Len(elems) = 1 THEN <<elems[1]>>
  ELSE <<elems[1]>> \o sep \o Join(Tail(elems), sep)

\* fmt's %v of a []string: "[a b c]".
FmtStrings(names) == <<"[">> \o Join(names, <<" ">>) \o <<"]">>

\* ------------------------------------------------- conflict extraction
\* Lines of a conflicted file, as git writes them.
StartLine == <<"<<<<<<<", " ", "HEAD">>
SepLine == <<"=======">>
EndLine == <<">>>>>>>", " ", "branch">>
PlainLines == {<<"x">>, <<"y">>}

LF == "\n"
IsSpace(a) == a \in {LF, " "}

\* strings.Split(s, "\n")
RECURSIVE SplitFrom(_, _, _)
SplitFrom(s, i, cur) ==
  IF i > Len(s) THEN <<cur>>
  ELSE IF s[i] = LF THEN <<cur>> \o SplitFrom(s, i + 1, <<>>)
  ELSE SplitFrom(s, i + 1, Append(cur, s[i]))
Split(s) == SplitFrom(s, 1, <<>>)

\* strings.Join(lines, "\n") where every element is a line (an atom sequence).
RECURSIVE JoinLines(_)
JoinLines(lines) ==
  IF lines = <<>> THEN <<>>
  ELSE IF Len(lines) = 1 THEN lines[1]
  ELSE lines[1] \o <<LF>> \o JoinLines(Tail(lines))

\* strings.TrimSpace(s)
RECURSIVE TrimLeft(_)
TrimLeft(s) == IF s # <<>> /\ IsSpace(s[1]) THEN TrimLeft(Tail(s)) ELSE s
RECURSIVE TrimRight(_)
TrimRight(s) ==
  IF s # <<>> /\ IsSpace(s[Len(s)]) THEN TrimRight(SubSeq(s, 1, Len(s) - 1)) ELSE s
TrimSpace(s) == TrimRight(TrimLeft(s))

\* The text of a file with the given lines, each ended by a newline.
RECURSIVE FileText(_)
FileText(lines) ==
  IF lines = <<>> THEN <<>> ELSE lines[1] \o <<LF>> \o FileText(Tail(lines))

\* A variant of ScanLine that takes the lines outside any region as ours.
ScanLineKeepOutside(st, line) ==
  IF HasPrefix(line, <<"<<<<<<<", " ">>) THEN [st EXCEPT !.inOurs = TRUE]
  ELSE IF HasPrefix(line, <<"=======", " ">>)
       THEN [st EXCEPT !.inOurs = FALSE, !.inTheirs = TRUE]
  ELSE IF HasPrefix(line, <<">>>>>>>", " ">>) THEN [st EXCEPT !.inTheirs = FALSE]
  ELSE IF st.inTheirs THEN [st EXCEPT !.theirs = Append(@, line)]
  ELSE [st EXCEPT !.ours = Append(@, line)]

\* One iteration of the scanning loop of getConflictContent: the scanner's
\* state st = [ours, theirs, inOurs, inTheirs] after reading `line`.
ScanLine(st, line) ==
  IF HasPrefix(line, <<"<<<<<<<", " ">>) THEN [st EXCEPT !.inOurs = TRUE]
  ELSE IF HasPrefix(line, <<"=======", " ">>)
       THEN [st EXCEPT !.inOurs = FALSE, !.inTheirs = TRUE]
  ELSE IF HasPrefix(line, <<">>>>>>>", " ">>) THEN [st EXCEPT !.inTheirs = FALSE]
  ELSE IF st.inOurs THEN [st EXCEPT !.ours = Append(@, line)]
  ELSE IF st.inTheirs THEN [st EXCEPT !.theirs = Append(@, line)]
  ELSE st

RECURSIVE ScanLines(_, _)
ScanLines(st, lines) ==
  IF lines = <<>> THEN st ELSE ScanLines(ScanLine(st, lines[1]), Tail(lines))

\* Service.getConflictContent for a readable file with text `content`.
getConflictContent(file, content) ==
  LET st == ScanLines([ours |-> <<>>, theirs |-> <<>>,
                       inOurs |-> FALSE, inTheirs |-> FALSE], Split(content))
  IN [File |-> file, Content |-> content,
      Ours |-> JoinLines(st.ours), Theirs |-> JoinLines(st.theirs)]

\* A working tree: listing is what `git diff --name-only --diff-filter=U`
\* names, in order; data[f] is [ok |-> the file can be read, text |-> its text].
\* The output of git diff: one name per line.
DiffOutput(tree) == FileText([i \in 1..Len(tree.listing) |-> <<tree.listing[i]>>])

\* A variant of CollectConflicts that gives up at the first unreadable file.
RECURSIVE CollectConflictsStopAtUnreadable(_, _)
CollectConflictsStopAtUnreadable(tree, files) ==
  IF files = <<>> THEN <<>>
  ELSE LET file == files[1]
           rest == CollectConflictsStopAtUnreadable(tree, Tail(files))
       IN IF file = <<>> THEN rest
          ELSE IF ~tree.data[file[1]].ok THEN <<>>
          ELSE <<getConflictContent(file[1], tree.data[file[1]].text)>> \o rest

RECURSIVE CollectConflicts(_, _)
CollectConflicts(tree, files) ==
  IF files = <<>> THEN <<>>
  ELSE LET file == files[1]
           rest == CollectConflicts(tree, Tail(files))
       IN IF file = <<>> THEN rest
          ELSE IF ~tree.data[file[1]].ok THEN rest
          ELSE <<getConflictContent(file[1], tree.data[file[1]].text)>> \o rest

\* Service.GetConflicts when git diff succeeded: the conflicts returned.
GetConflicts(tree) == CollectConflicts(tree, Split(TrimSpace(DiffOutput(tree))))

\* ----------------------------------------------------------------- state
VARIABLES
  RunOnce,           \* CLI.RunOnce
  DryRun,            \* cfg.DryRun (dry_run in the config, or CLI.DryRun)
  KeepArtifacts,     \* cfg.KeepArtifacts (CLI.KeepArtifacts)
  ReviewersTeam,     \* cfg.GitHub.ReviewersTeam ("" when not configured)
  schedPc,           \* where runRebaser is
  schedResult,       \* what runRebaser returned
  cancelled,         \* appCtx is done (cancel() was called)
  tickPending,       \* a tick waits in ticker.C (a channel of capacity 1)
  runs,              \* performRebase invocations so far
  clock,             \* time.Now().Unix()
  fs,                \* the temporary directories that exist
  ActualWorkingDir,  \* cfg.ActualWorkingDir (0 is "")
  lastBranch,        \* the branch name this process made last (<<>>: none yet)
  pc,                \* where performRebase is
  panicking,         \* performRebase is unwinding a panic
  interrupted,       \* history: the signal arrived during this run
  phases,            \* history: the phases this run started, in order
  phaseOk,           \* history: the phases of this run that returned nil
  calls,             \* history: the collaborator calls of this run, in order
  branchName,        \* performRebase's branchName (the timestamp)
  tree,              \* the working tree the rebase left
  conflicts,         \* performRebase's conflicts
  idx,               \* resolveConflictsWithAI's loop index
  resolution,        \* resolveConflictsWithAI's resolution
  commitMessage,     \* resolveConflictsWithAI's commitMessage
  pr,                \* performRebase's pr
  testResult,        \* runTests's result (the TestResult of RunTests)
  failed,            \* the phase whose function returned an error
  err,               \* the error that phase function returned
  ret,               \* what performRebase returned
  exPc,              \* the conflict extractor alone: "off", "input" or "done"
  exTree,            \* the working tree given to the conflict extractor
  exOut,             \* the conflicts GetConflicts returned for exTree
  exErr,             \* the error GetConflicts returned for exTree
  tsPc,              \* the test service alone: "off", "input" or "done"
  tsCommands,        \* the commands the test service was made with (s.commands)
  tsOuts,            \* how each of these commands ends when it runs
  tsResult,          \* the TestResult RunTests returned
  mgPc,              \* MergePullRequest alone: "off", "input", "got" or "done"
  mgNumber,          \* MergePullRequest's prNumber
  mgRemote,          \* the pull request as GitHub holds it
  mgSeen,            \* MergePullRequest's pr (<<>> before PullRequests.Get answered)
  mgCalls,           \* history: the GitHub API calls of MergePullRequest
  mgErr              \* the error MergePullRequest returned

cfgVars == <<RunOnce, DryRun, KeepArtifacts, ReviewersTeam>>
schedVars == <<schedPc, schedResult, runs>>
envVars == <<cancelled, tickPending, clock, interrupted>>
dirVars == <<fs, ActualWorkingDir, lastBranch>>
histVars == <<phases, phaseOk, calls>>
localVars == <<branchName, tree, conflicts, idx, resolution, commitMessage, pr,
               testResult>>
errVars == <<failed, err, ret>>
tsVars == <<tsPc, tsCommands, tsOuts, tsResult>>
mgVars == <<mgPc, mgNumber, mgRemote, mgSeen, mgCalls, mgErr>>
exVars == <<exPc, exTree, exOut, exErr, tsVars, mgVars>>
vars == <<cfgVars, schedVars, envVars, dirVars, pc, panicking, histVars,
          localVars, errVars, exVars>>

Phases == <<"Setup", "Rebase", "ResolveConflicts", "Test", "Publish", "Notify">>
PhaseIndex(p) == CHOOSE i \in 1..Len(Phases) : Phases[i] = p

NoPR == [Number |-> 0, HTMLURL |-> <<>>]
NoTree == [listing |-> <<>>, data |-> <<>>]
NoResult == [Success |-> TRUE, Results |-> <<>>, FailedTests |-> <<>>]
NotRun == <<"(not run)">>

\* A collaborator call as the history records it.
Call(op) == [op |-> op, ok |-> TRUE, dir |-> 0, file |-> "", text |-> <<>>,
             level |-> "", title |-> "", url |-> <<>>, num |-> 0,
             head |-> 0, base |-> "", users |-> <<>>, teams |-> <<>>]

\* What an external operation may do. One that takes the context fails once
\* the context is cancelled; otherwise the environment decides.
CtxErr == <<"context canceled">>
Outcomes(honorsCtx) == IF honorsCtx /\ cancelled THEN {"ctx"} ELSE {"ok", "fail"}
Cause(r) == IF r = "ctx" THEN CtxErr ELSE <<"i/o failure">>

\* The history gets the call c, which ended as r.
Log(c, r) == calls' = Append(calls, [c EXCEPT !.ok = (r = "ok")])

\* --------------------------------------------------------------- runRebaser
\* runRebaser calls performRebase.
EnterPerformRebase ==
  /\ runs' = runs + 1
  /\ pc' = "setup"
  /\ UNCHANGED <<panicking, histVars, localVars, errVars>>

\* runRebaser up to its first performRebase call: run once, or the initial run.
runRebaser_Start ==
  /\ schedPc = "start"
  /\ schedPc' = IF RunOnce THEN "once" ELSE "initial"
  /\ EnterPerformRebase
  /\ UNCHANGED <<cfgVars, schedResult, envVars, dirVars, exVars>>

\* A variant of AfterRun that leaves the loop when a run returned an error.
AfterRunStopOnError(mode, result) ==
  IF mode = "once" \/ result # nil THEN [schedPc |-> "returned", schedResult |-> result]
  ELSE [schedPc |-> "select", schedResult |-> NotRun]

\* What runRebaser does with the value performRebase returned: in run-once
\* mode it returns it, otherwise it logs it and goes on to the select loop.
AfterRun(mode, result) ==
  IF mode = "once" THEN [schedPc |-> "returned", schedResult |-> result]
  ELSE [schedPc |-> "select", schedResult |-> NotRun]

\* The locals of performRebase, and the history of the run, end with it.
LeavePerformRebase ==
  /\ pc' = "idle"
  /\ panicking' = FALSE
  /\ phases' = <<>>
  /\ phaseOk' = {}
  /\ calls' = <<>>
  /\ interrupted' = FALSE
  /\ branchName' = 0
  /\ tree' = NoTree
  /\ conflicts' = <<>>
  /\ idx' = 0
  /\ resolution' = <<>>
  /\ commitMessage' = <<>>
  /\ pr' = NoPR
  /\ testResult' = NoResult
  /\ failed' = ""
  /\ err' = nil
  /\ ret' = NotRun

runRebaser_RunReturned ==
  /\ schedPc \in {"once", "initial", "periodic"}
  /\ pc = "returned"
  /\ ~panicking
  /\ schedPc' = AfterRun(schedPc, ret).schedPc
  /\ schedResult' = AfterRun(schedPc, ret).schedResult
  /\ LeavePerformRebase
  /\ UNCHANGED <<cfgVars, runs, cancelled, tickPending, clock, dirVars, exVars>>

\* A panic that left performRebase ends the process.
runRebaser_Panicked ==
  /\ schedPc \in {"once", "initial", "periodic"}
  /\ pc = "returned"
  /\ panicking
  /\ schedPc' = "crashed"
  /\ LeavePerformRebase
  /\ UNCHANGED <<cfgVars, schedResult, runs, cancelled, tickPending, clock, dirVars,
                 exVars>>

\* A variant of AtSelect for a loop that selects while performRebase runs.
AtSelectOrRunning(at) == at \in {"select", "initial", "periodic"}

\* runRebaser is at its select when it is at `at`: performRebase is called
\* in the loop itself, so only once the call returned.
AtSelect(at) == at = "select"

\* select: case <-ctx.Done()
runRebaser_SelectDone ==
  /\ AtSelect(schedPc)
  /\ cancelled
  /\ schedPc' = "returned"
  /\ schedResult' = nil
  /\ UNCHANGED <<cfgVars, runs, envVars, dirVars, pc, panicking, histVars, localVars,
                 errVars, exVars>>

\* select: case <-ticker.C
runRebaser_SelectTick ==
  /\ AtSelect(schedPc)
  /\ tickPending
  /\ runs < MaxRuns
  /\ tickPending' = FALSE
  /\ schedPc' = "periodic"
  /\ EnterPerformRebase
  /\ UNCHANGED <<cfgVars, schedResult, cancelled, clock, interrupted, dirVars, exVars>>

\* ------------------------------------------------------------- environment
\* The signal goroutine of main: a SIGINT or SIGTERM arrives, cancel() is called.
main_Signal ==
  /\ ~cancelled
  /\ schedPc \notin {"returned", "crashed"}
  /\ cancelled' = TRUE
  /\ interrupted' = (pc # "idle")
  /\ UNCHANGED <<cfgVars, schedVars, tickPending, clock, dirVars, pc, panicking,
                 histVars, localVars, errVars, exVars>>

\* The ticker created by time.NewTicker sends a tick; one tick is buffered.
\* The tick is read only by the select of runRebaser, so a tick that fires
\* during a run is taken to fire at the run's last step.
Ticker_Fire ==
  /\ schedPc \in {"initial", "select", "periodic"}
  /\ pc \in {"cleanup", "idle"}
  /\ ~tickPending
  /\ tickPending' = TRUE
  /\ UNCHANGED <<cfgVars, schedVars, cancelled, clock, interrupted, dirVars, pc, panicking,
                 histVars, localVars, errVars, exVars>>

\* A second of wall-clock time passes. The clock is read only where the
\* branch name is made, so the second is taken to pass just before that.
Clock_Second ==
  /\ clock < MaxTime
  /\ pc = "create_branch"
  /\ clock' = clock + 1
  /\ UNCHANGED <<cfgVars, schedVars, cancelled, tickPending, interrupted, dirVars, pc,
                 panicking,
                 histVars, localVars, errVars, exVars>>

\* ------------------------------------------------------------ performRebase
\* A variant of Fail that tries the failed step again.
FailAndRetry(phase, e) ==
  /\ failed' = phase
  /\ err' = e
  /\ pc' = pc

\* A variant of Fail that returns without sendErrorNotification.
FailSilently(phase, e) ==
  /\ failed' = phase
  /\ err' = e
  /\ pc' = "cleanup"

\* A phase function returned the error e: performRebase goes on to
\* sendErrorNotification and then returns the wrapped error.
Fail(phase, e) ==
  /\ failed' = phase
  /\ err' = e
  /\ pc' = "notify_error"

\* A variant of NewTempDir for one fixed working directory.
NewTempDirFixed(n) == 1

\* os.MkdirTemp("", "ai-rebaser-*") in the n-th run: it creates a directory
\* under a name that does not exist, so one that no earlier call returned.
NewTempDir(n) == n

\* Phase 1, setupWorkingDirectory: os.MkdirTemp and cfg.ActualWorkingDir.
setupWorkingDirectory_MkdirTemp ==
  /\ pc = "setup"
  /\ phases' = Append(phases, "Setup")
  /\ \E r \in Outcomes(FALSE) :
       IF r = "ok"
       THEN /\ fs' = fs \cup {NewTempDir(runs)}
            /\ ActualWorkingDir' = NewTempDir(runs)
            /\ UNCHANGED lastBranch
            /\ Log([Call("os.MkdirTemp") EXCEPT !.dir = NewTempDir(runs)], r)
            /\ pc' = "clone"
            /\ UNCHANGED errVars
       ELSE /\ Fail("Setup", Errorf(<<"failed to create temporary directory: ">>, Cause(r)))
            /\ Log(Call("os.MkdirTemp"), r)
            /\ UNCHANGED <<dirVars, ret>>
  /\ UNCHANGED <<cfgVars, schedVars, envVars, panicking, phaseOk, localVars, exVars>>

\* A variant of AfterClone that goes on without the fallback.
AfterCloneNoFallback(r) == "add_remote"

\* setupWorkingDirectory after Git.Clone ended as r.
AfterClone(r) == IF r = "ok" THEN "add_remote" ELSE "fetch_fallback"

\* Git.Clone (go-git's PlainClone, which takes no context).
setupWorkingDirectory_Clone ==
  /\ pc = "clone"
  /\ \E r \in Outcomes(FALSE) :
       /\ Log([Call("Git.Clone") EXCEPT !.dir = ActualWorkingDir], r)
       /\ pc' = AfterClone(r)
  /\ UNCHANGED <<cfgVars, schedVars, envVars, dirVars, panicking, phases, phaseOk,
                 localVars, errVars, exVars>>

\* Clone failed: Git.Fetch instead (go-git's Fetch, which takes no context).
setupWorkingDirectory_FetchFallback ==
  /\ pc = "fetch_fallback"
  /\ \E r \in Outcomes(FALSE) :
       /\ Log([Call("Git.Fetch") EXCEPT !.dir = ActualWorkingDir], r)
       /\ IF r = "ok"
          THEN pc' = "add_remote" /\ UNCHANGED errVars
          ELSE /\ Fail("Setup", Errorf(<<"failed to clone or fetch internal repo: ",
                                         "failed to open repository: ">>, Cause(r)))
               /\ UNCHANGED ret
  /\ UNCHANGED <<cfgVars, schedVars, envVars, dirVars, panicking, phases, phaseOk,
                 localVars, exVars>>

\* Git.AddRemote(internalDir, "upstream", cfg.Git.UpstreamRepo)
setupWorkingDirectory_AddRemote ==
  /\ pc = "add_remote"
  /\ \E r \in Outcomes(FALSE) :
       /\ Log([Call("Git.AddRemote") EXCEPT !.dir = ActualWorkingDir], r)
       /\ IF r = "ok"
          THEN pc' = "fetch" /\ UNCHANGED errVars
          ELSE /\ Fail("Setup", Errorf(<<"failed to add upstream remote: ">>, Cause(r)))
               /\ UNCHANGED ret
  /\ UNCHANGED <<cfgVars, schedVars, envVars, dirVars, panicking, phases, phaseOk,
                 localVars, exVars>>

\* The final Git.Fetch; on success setupWorkingDirectory returns nil.
setupWorkingDirectory_Fetch ==
  /\ pc = "fetch"
  /\ \E r \in Outcomes(FALSE) :
       /\ Log([Call("Git.Fetch") EXCEPT !.dir = ActualWorkingDir], r)
       /\ IF r = "ok"
          THEN /\ pc' = "create_branch"
               /\ phaseOk' = phaseOk \cup {"Setup"}
               /\ UNCHANGED errVars
          ELSE /\ Fail("Setup", Errorf(<<"failed to fetch from repositories: ",
                                         "failed to fetch: ">>, Cause(r)))
               /\ UNCHANGED <<phaseOk, ret>>
  /\ UNCHANGED <<cfgVars, schedVars, envVars, dirVars, panicking, phases, localVars,
                 exVars>>

\* fmt.Sprintf("ai-rebase-%d", time.Now().Unix()): the name is the number
\* of the second in which it is made.
BranchName(now) == now

\* Phase 2: branchName := "ai-rebase-<unix time>", then performGitRebase
\* begins with Git.CreateBranch (go-git's Checkout, which takes no context).
performGitRebase_CreateBranch ==
  /\ pc = "create_branch"
  /\ phases' = Append(phases, "Rebase")
  /\ branchName' = BranchName(clock)
  /\ lastBranch' = <<BranchName(clock)>>
  /\ \E r \in Outcomes(FALSE) :
       /\ Log([Call("Git.CreateBranch") EXCEPT !.dir = ActualWorkingDir, !.num = clock], r)
       /\ IF r = "ok"
          THEN pc' = "rebase" /\ UNCHANGED errVars
          ELSE /\ Fail("Rebase", Errorf(<<"failed to create rebase branch: ",
                                          "failed to create branch: ">>, Cause(r)))
               /\ UNCHANGED ret
  /\ UNCHANGED <<cfgVars, schedVars, envVars, fs, ActualWorkingDir, panicking, phaseOk,
                 tree, conflicts, idx, resolution, commitMessage, pr,
                 testResult, exVars>>

\* Exit statuses git rebase may end with (0 is success): 1 is what a rebase
\* stopped by a conflict ends with, 128 is git's fatal error.
ExitCodes == {1, 2, 128}

\* How the git rebase subprocess may end.
RebaseOutcomes ==
  IF cancelled THEN {[kind |-> "ctx", code |-> 0]}
  ELSE {[kind |-> "ok", code |-> 0], [kind |-> "nostart", code |-> 0],
        [kind |-> "killed", code |-> 0]}
       \cup {[kind |-> "exit", code |-> c] : c \in ExitCodes}

\* The error cmd.Run returns, by how the subprocess ended.
cmdRunError(o) ==
  CASE o.kind = "ok" -> nil
    [] o.kind = "exit" -> <<"exit status ">> \o Itoa(o.code)
    [] o.kind = "killed" -> <<"signal: ", "killed">>
    [] o.kind = "nostart" -> <<"exec: ", "\"git\"", ": executable file not found in $PATH">>
    [] o.kind = "ctx" -> CtxErr

\* Service.Rebase: the error it returns for the error e of cmd.Run.
Rebase(e) ==
  IF e = nil THEN nil
  ELSE IF Contains(e, <<"exit status ", "1">>)
       THEN Errorf(<<"rebase ", "conflict", "s detected: ">>, e)
       ELSE Errorf(<<"failed to rebase: ">>, e)

isConflictError(e) ==
  e # nil /\ (Contains(e, <<"conflict">>) \/ Contains(e, <<"CONFLICT">>))

\* File names, in the order git lists paths.
FileNames == <<"a.go", "b.go", "c.go", "d.go">>

\* A file with one conflict region, as git writes it.
OneRegionText == FileText(<<<<"x">>, StartLine, <<"o">>, SepLine, <<"t">>, EndLine, <<"y">>>>)

\* The working trees a rebase of the pipeline may leave: the first k files
\* unmerged, all readable or all but the first.
PipelineTrees ==
  {[listing |-> [i \in 1..k |-> FileNames[i]],
    data |-> [f \in {FileNames[i] : i \in 1..k} |->
                [ok |-> f \notin unreadable, text |-> OneRegionText]]] :
     k \in 0..MaxFiles, unreadable \in {{}, {FileNames[1]}}}

\* The working tree after git rebase: clean unless the rebase stopped.
TreesAfter(o) ==
  IF o.kind = "exit" /\ o.code = 1 THEN PipelineTrees
  ELSE {t \in PipelineTrees : t.listing = <<>>}

\* performGitRebase after Git.Rebase returned e: fatal, or on to GetConflicts.
RebaseIsFatal(e) == e # nil /\ ~isConflictError(e)

\* Git.Rebase (exec.CommandContext: it takes the context) and the
\* classification of its error by performGitRebase.
performGitRebase_Rebase ==
  /\ pc = "rebase"
  /\ \E o \in RebaseOutcomes :
       LET e == Rebase(cmdRunError(o)) IN
       /\ calls' = Append(calls, [Call("Git.Rebase") EXCEPT
                                    !.ok = (e = nil), !.dir = ActualWorkingDir, !.text = e])
       /\ tree' \in TreesAfter(o)
       /\ IF RebaseIsFatal(e)
          THEN Fail("Rebase", Errorf(<<"unexpected rebase error: ">>, e)) /\ UNCHANGED ret
          ELSE pc' = "get_conflicts" /\ UNCHANGED errVars
  /\ UNCHANGED <<cfgVars, schedVars, envVars, dirVars, panicking, phases, phaseOk,
                 branchName, conflicts, idx, resolution, commitMessage, pr,
                 testResult, exVars>>

\* A variant of AfterRebase that commits even when there was no conflict.
AfterRebaseCommitAnyway(cs) == IF Len(cs) > 0 THEN "ai_resolve" ELSE "commit_message"

\* A variant of AfterRebase that goes from a clean rebase straight to Publish.
AfterRebaseSkipTests(cs) == IF Len(cs) > 0 THEN "ai_resolve" ELSE "push"

\* performRebase after performGitRebase returned the conflicts cs.
AfterRebase(cs) == IF Len(cs) > 0 THEN "ai_resolve" ELSE "run_tests"

\* Git.GetConflicts (git diff through exec.CommandContext: it takes the
\* context); on success performGitRebase returns the conflicts.
performGitRebase_GetConflicts ==
  /\ pc = "get_conflicts"
  /\ \E r \in Outcomes(TRUE) :
       /\ Log([Call("Git.GetConflicts") EXCEPT !.dir = ActualWorkingDir], r)
       /\ IF r = "ok"
          THEN /\ conflicts' = GetConflicts(tree)
               /\ idx' = 1
               /\ phaseOk' = phaseOk \cup {"Rebase"}
               /\ pc' = AfterRebase(GetConflicts(tree))
               /\ UNCHANGED errVars
          ELSE /\ Fail("Rebase", Errorf(<<"failed to get ", "conflict", "s: ",
                                          "failed to get ", "conflict", " files: ">>,
                                        Cause(r)))
               /\ UNCHANGED <<conflicts, idx, phaseOk, ret>>
  /\ UNCHANGED <<cfgVars, schedVars, envVars, dirVars, panicking, phases, branchName,
                 tree, resolution, commitMessage, pr,
                 testResult, exVars>>

\* Texts the AI collaborator may answer with.
AITexts == {<<"merged-1">>, <<"merged-2">>}

\* Phase 3, resolveConflictsWithAI, loop body part 1: AI.ResolveConflict for
\* conflicts[idx] (an HTTP call that takes the context).
resolveConflictsWithAI_AIResolve ==
  /\ pc = "ai_resolve"
  /\ phases' = IF idx = 1 THEN Append(phases, "ResolveConflicts") ELSE phases
  /\ \E r \in Outcomes(TRUE) :
       /\ IF r = "ok"
          THEN /\ \E t \in AITexts :
                    /\ resolution' = t
                    /\ Log([Call("AI.ResolveConflict") EXCEPT
                              !.file = conflicts[idx].File, !.num = idx, !.text = t], r)
               /\ pc' = "git_resolve"
               /\ UNCHANGED errVars
          ELSE /\ Log([Call("AI.ResolveConflict") EXCEPT
                         !.file = conflicts[idx].File, !.num = idx], r)
               /\ Fail("ResolveConflicts",
                       Errorf(<<"AI failed to resolve ", "conflict", " in ",
                                conflicts[idx].File, ": ">>, Cause(r)))
               /\ UNCHANGED <<resolution, ret>>
  /\ UNCHANGED <<cfgVars, schedVars, envVars, dirVars, panicking, phaseOk, branchName,
                 tree, conflicts, idx, commitMessage, pr,
                 testResult, exVars>>

\* A variant of NextConflict that asks again for the conflict just applied.
NextConflictAgain(i, n) == IF i < n THEN [pc |-> "ai_resolve", idx |-> i]
                           ELSE [pc |-> "commit_message", idx |-> i]

\* The loop of resolveConflictsWithAI after conflict i of n was applied.
NextConflict(i, n) == IF i < n THEN [pc |-> "ai_resolve", idx |-> i + 1]
                      ELSE [pc |-> "commit_message", idx |-> i]

\* How Service.ResolveConflict may end: os.WriteFile fails; or the file is
\* written and git add (exec.CommandContext: it takes the context) fails or not.
ResolveOutcomes == IF cancelled THEN {"write", "ctx"} ELSE {"ok", "write", "fail"}

\* A variant of WriteFile that leaves the file as it was.
WriteFileNothing(t, file, text) == t

\* os.WriteFile(filePath, []byte(resolution), 0644) in the working tree t.
WriteFile(t, file, text) == [t EXCEPT !.data[file].text = text]

\* Loop body part 2: Git.ResolveConflict writes the resolution and stages it.
resolveConflictsWithAI_GitResolve ==
  /\ pc = "git_resolve"
  /\ \E r \in ResolveOutcomes :
       /\ Log([Call("Git.ResolveConflict") EXCEPT
                 !.dir = ActualWorkingDir, !.file = conflicts[idx].File,
                 !.text = resolution, !.num = idx], r)
       /\ tree' = IF r = "write" THEN tree
                  ELSE WriteFile(tree, conflicts[idx].File, resolution)
       /\ IF r = "ok"
          THEN /\ pc' = NextConflict(idx, Len(conflicts)).pc
               /\ idx' = NextConflict(idx, Len(conflicts)).idx
               /\ UNCHANGED errVars
          ELSE /\ Fail("ResolveConflicts",
                       Errorf(<<"failed to apply resolution for ", conflicts[idx].File, ": ">>,
                              IF r = "write" THEN <<"failed to resolve ", "conflict", ": ">>
                                                  \o Cause(r)
                              ELSE <<"failed to add resolved file: ">> \o Cause(r)))
               /\ UNCHANGED <<idx, ret>>
  /\ UNCHANGED <<cfgVars, schedVars, envVars, dirVars, panicking, phases, phaseOk,
                 branchName, conflicts, resolution, commitMessage, pr,
                 testResult, exVars>>

\* The commit message the AI collaborator answers with.
CommitTexts == {<<"AI: resolve conflicts">>}

\* A variant of Changes that names only the file resolved last.
ChangesLastOnly(cs) == <<cs[Len(cs)].File>>

\* resolveConflictsWithAI: changes, the files of the conflicts in order.
Changes(cs) == [i \in 1..Len(cs) |-> cs[i].File]

\* changes := the conflicts' files; AI.GenerateCommitMessage(changes) (an
\* HTTP call that takes the context).
resolveConflictsWithAI_CommitMessage ==
  /\ pc = "commit_message"
  /\ \E r \in Outcomes(TRUE) :
       /\ Log([Call("AI.GenerateCommitMessage") EXCEPT
                 !.text = Changes(conflicts)], r)
       /\ IF r = "ok"
          THEN /\ commitMessage' \in CommitTexts
               /\ pc' = "commit"
               /\ UNCHANGED errVars
          ELSE /\ Fail("ResolveConflicts",
                       Errorf(<<"failed to generate commit message: ">>, Cause(r)))
               /\ UNCHANGED <<commitMessage, ret>>
  /\ UNCHANGED <<cfgVars, schedVars, envVars, dirVars, panicking, phases, phaseOk,
                 branchName, tree, conflicts, idx, resolution, pr,
                 testResult, exVars>>

\* Git.Commit (go-git's Commit, which takes no context); on success
\* resolveConflictsWithAI returns nil.
resolveConflictsWithAI_Commit ==
  /\ pc = "commit"
  /\ \E r \in Outcomes(FALSE) :
       /\ Log([Call("Git.Commit") EXCEPT !.dir = ActualWorkingDir,
                                         !.text = commitMessage], r)
       /\ IF r = "ok"
          THEN /\ pc' = "run_tests"
               /\ phaseOk' = phaseOk \cup {"ResolveConflicts"}
               /\ UNCHANGED errVars
          ELSE /\ Fail("ResolveConflicts",
                       Errorf(<<"failed to commit resolved ", "conflict", "s: ",
                                "failed to commit: ">>, Cause(r)))
               /\ UNCHANGED <<phaseOk, ret>>
  /\ UNCHANGED <<cfgVars, schedVars, envVars, dirVars, panicking, phases, localVars,
                 exVars>>

\* ------------------------------------------------------------- test service
\* The configured test commands (cfg.Tests.Commands).
Commands == <<[Name |-> "build", WorkingDir |-> <<>>],
              [Name |-> "test", WorkingDir |-> <<".">>]>>

\* The path of the temporary directory d, and of the clone in it.
TempDir(d) == <<"/tmp/ai-rebaser-">> \o Itoa(d)
internalDir(d) == TempDir(d) \o <<"/internal">>

\* A variant of RunCommand whose result is always a success.
RunCommandAlwaysSuccess(testCmd, out) ==
  [result |-> [Command |-> testCmd.Name, Success |-> TRUE, Dir |-> testCmd.WorkingDir],
   err |-> nil]

\* Service.RunCommand: the command runs in cmd.Dir = testCmd.WorkingDir and
\* ends as `out`; its failure is in the result, the error returned is nil.
RunCommand(testCmd, out) ==
  [result |-> [Command |-> testCmd.Name, Success |-> (out = "ok"),
               Dir |-> testCmd.WorkingDir],
   err |-> nil]

\* The loop of Service.RunTests over the commands from index i on.
RECURSIVE RunTestsLoop(_, _, _, _)
RunTestsLoop(cmds, outs, i, acc) ==
  IF i > Len(cmds) THEN acc
  ELSE LET rc == RunCommand(cmds[i], outs[i]) IN
       IF rc.err # nil
       THEN RunTestsLoop(cmds, outs, i + 1,
                         [acc EXCEPT !.Success = FALSE,
                                     !.FailedTests = Append(@, cmds[i].Name)])
       ELSE IF ~rc.result.Success
       THEN RunTestsLoop(cmds, outs, i + 1,
                         [acc EXCEPT !.Success = FALSE,
                                     !.Results = Append(@, rc.result),
                                     !.FailedTests = Append(@, cmds[i].Name)])
       ELSE RunTestsLoop(cmds, outs, i + 1, [acc EXCEPT !.Results = Append(@, rc.result)])

\* A variant of RunTests that stops at the first command that fails.
RunTestsStopAtFailure(cmds, workingDir, outs) ==
  LET bad == {i \in 1..Len(cmds) : outs[i] # "ok"}
      n == IF bad = {} THEN Len(cmds) ELSE CHOOSE i \in bad : \A j \in bad : i <= j
  IN RunTestsLoop(SubSeq(cmds, 1, n), outs, 1,
                  [Success |-> TRUE, Results |-> <<>>, FailedTests |-> <<>>])

\* Service.RunTests(ctx, workingDir) with the commands ending as outs.
RunTests(cmds, workingDir, outs) ==
  IF Len(cmds) = 0
  THEN [Success |-> TRUE, Results |-> <<>>, FailedTests |-> <<>>]
  ELSE RunTestsLoop(cmds, outs, 1,
                    [Success |-> TRUE, Results |-> <<>>, FailedTests |-> <<>>])

\* How a test command may end (exec.CommandContext: it takes the context).
CommandOutcomes == IF cancelled THEN {"ctx"} ELSE {"ok", "fail"}

\* A variant of runTestsError that names only the first failed command.
runTestsErrorFirstOnly(result) ==
  IF ~result.Success THEN <<"tests failed", ": ">> \o FmtStrings(<<result.FailedTests[1]>>)
  ELSE nil

\* runTests: the error it returns for the TestResult of RunTests.
runTestsError(result) ==
  IF ~result.Success THEN <<"tests failed", ": ">> \o FmtStrings(result.FailedTests)
  ELSE nil

\* Phase 4, runTests: Test.RunTests(ctx, internalDir).
runTests_RunTests ==
  /\ pc = "run_tests"
  /\ phases' = Append(phases, "Test")
  /\ \E outs \in [1..Len(Commands) -> CommandOutcomes] :
       LET result == RunTests(Commands, internalDir(ActualWorkingDir), outs)
           e == runTestsError(result)
       IN /\ calls' = Append(calls, [Call("Test.RunTests") EXCEPT
                                       !.ok = result.Success, !.dir = ActualWorkingDir,
                                       !.text = result.FailedTests])
          /\ testResult' = result
          /\ IF e # nil
             THEN Fail("Test", e) /\ UNCHANGED <<phaseOk, ret>>
             ELSE /\ pc' = "push"
                  /\ phaseOk' = phaseOk \cup {"Test"}
                  /\ UNCHANGED errVars
  /\ UNCHANGED <<cfgVars, schedVars, envVars, dirVars, panicking, branchName, tree,
                 conflicts, idx, resolution, commitMessage, pr, exVars>>

\* ------------------------------------------------------------------ publish
\* Phase 5, createPullRequest: Git.Push (go-git's Push, which takes no context).
createPullRequest_Push ==
  /\ pc = "push"
  /\ phases' = Append(phases, "Publish")
  /\ \E r \in Outcomes(FALSE) :
       /\ Log([Call("Git.Push") EXCEPT !.dir = ActualWorkingDir, !.num = branchName], r)
       /\ IF r = "ok"
          THEN pc' = "pr_description" /\ UNCHANGED errVars
          ELSE /\ Fail("Publish", Errorf(<<"failed to push branch: ", "failed to push: ">>,
                                         Cause(r)))
               /\ UNCHANGED ret
  /\ UNCHANGED <<cfgVars, schedVars, envVars, dirVars, panicking, phaseOk, localVars,
                 exVars>>

\* AI.GeneratePRDescription(commits, conflicts) (an HTTP call that takes the context).
createPullRequest_PRDescription ==
  /\ pc = "pr_description"
  /\ \E r \in Outcomes(TRUE) :
       /\ Log([Call("AI.GeneratePRDescription") EXCEPT !.num = Len(conflicts)], r)
       /\ IF r = "ok"
          THEN pc' = "create_pr" /\ UNCHANGED errVars
          ELSE /\ Fail("Publish", Errorf(<<"failed to generate PR description: ">>, Cause(r)))
               /\ UNCHANGED ret
  /\ UNCHANGED <<cfgVars, schedVars, envVars, dirVars, panicking, phases, phaseOk,
                 localVars, exVars>>

\* Numbers GitHub may give the new pull request.
PRNumbers == {7, 12}
PRLink(n) == <<"https://github.com/o/r/pull/">> \o Itoa(n)

\* A variant of AfterCreatePR that asks for reviewers whatever the config.
AfterCreatePRAlways(team) == "add_reviewers"

\* createPullRequest after the pull request was created.
AfterCreatePR(team) == IF team # "" THEN "add_reviewers" ELSE "notify"

\* cfg.Git.Branch
GitBranch == "main"

\* A variant of prRequest that opens the pull request against a fixed branch.
prRequestFixedBase(branch, base) == [Head |-> branch, Base |-> "master"]

\* createPullRequest's prRequest: the head and the base of the pull request.
prRequest(branch, base) == [Head |-> branch, Base |-> base]

\* GitHub.CreatePullRequest (an HTTP call that takes the context); without a
\* reviewers team createPullRequest returns here.
createPullRequest_CreatePR ==
  /\ pc = "create_pr"
  /\ \E r \in Outcomes(TRUE) :
       LET req == prRequest(branchName, GitBranch)
           call == [Call("GitHub.CreatePullRequest") EXCEPT
                      !.head = req.Head, !.base = req.Base]
       IN
       IF r = "ok"
       THEN \E n \in PRNumbers :
              /\ Log([call EXCEPT !.num = n], r)
              /\ pr' = [Number |-> n, HTMLURL |-> PRLink(n)]
              /\ pc' = AfterCreatePR(ReviewersTeam)
              /\ phaseOk' = IF ReviewersTeam # "" THEN phaseOk ELSE phaseOk \cup {"Publish"}
              /\ UNCHANGED errVars
       ELSE /\ Log(call, r)
            /\ Fail("Publish", Errorf(<<"failed to create PR: ",
                                        "failed to create pull request: ">>, Cause(r)))
            /\ UNCHANGED <<pr, phaseOk, ret>>
  /\ UNCHANGED <<cfgVars, schedVars, envVars, dirVars, panicking, phases, branchName,
                 tree, conflicts, idx, resolution, commitMessage, testResult, exVars>>

\* The characters of a configured name: "@" and "/" would be characters of
\* their own; the README's example "core-team" has neither.
Chars(name) == IF name = "" THEN <<>> ELSE <<name>>

\* strings.TrimPrefix(s, p)
TrimPrefix(s, p) == IF HasPrefix(s, p) THEN SubSeq(s, Len(p) + 1, Len(s)) ELSE s

\* Service.AddReviewers: the reviewers split into users and teams, which
\* become Reviewers and TeamReviewers of the review request.
RECURSIVE SplitReviewers(_)
SplitReviewers(reviewers) ==
  IF reviewers = <<>> THEN [users |-> <<>>, teams |-> <<>>]
  ELSE LET reviewer == reviewers[1]
           rest == SplitReviewers(Tail(reviewers))
       IN IF HasPrefix(reviewer, <<"@">>) \/ Contains(reviewer, <<"/">>)
          THEN [rest EXCEPT !.teams = <<TrimPrefix(reviewer, <<"@">>)>> \o @]
          ELSE [rest EXCEPT !.users = <<reviewer>> \o @]

\* GitHub.AddReviewers (an HTTP call that takes the context); its error is
\* logged and createPullRequest returns the pull request.
createPullRequest_AddReviewers ==
  /\ pc = "add_reviewers"
  /\ \E r \in Outcomes(TRUE) :
       LET req == SplitReviewers(<<Chars(ReviewersTeam)>>) IN
       Log([Call("GitHub.AddReviewers") EXCEPT !.num = pr.Number, !.file = ReviewersTeam,
                                               !.users = req.users, !.teams = req.teams], r)
  /\ pc' = "notify"
  /\ phaseOk' = phaseOk \cup {"Publish"}
  /\ UNCHANGED <<cfgVars, schedVars, envVars, dirVars, panicking, phases, localVars,
                 errVars, exVars>>

\* ------------------------------------------------------------ notifications
\* A variant of SuccessMessage that leaves the pull request's number out.
SuccessMessageNoNumber(cs, number) ==
  IF Len(cs) = 0
  THEN <<"Rebase completed successfully with ", "no ", "conflict", "s", ". ", "PR created.">>
  ELSE <<"AI-assisted rebase completed! ", "Resolved ">> \o Itoa(Len(cs))
       \o <<" ", "conflict", "s", ". ", "PR created.">>

\* sendNotifications: the message text.
SuccessMessage(cs, number) ==
  IF Len(cs) = 0
  THEN <<"Rebase completed successfully with ", "no ", "conflict", "s", ". ", "PR #">>
       \o Itoa(number) \o <<" created and ready for review.">>
  ELSE <<"AI-assisted rebase completed! ", "Resolved ">> \o Itoa(Len(cs))
       \o <<" ", "conflict", "s", " in files: ">>
       \o Join([i \in 1..Len(cs) |-> cs[i].File], <<", ">>)
       \o <<". ", "PR #">> \o Itoa(number) \o <<" created and ready for review.">>

\* A variant of AfterSendNotifications that returns the notification error.
AfterSendNotificationsEscalate(e) == e

\* performRebase after sendNotifications returned e: e is logged, nil returned.
AfterSendNotifications(e) == nil

\* Phase 6, sendNotifications: Notify.SendMessage at success level (an HTTP
\* call that takes the context); its error is logged and performRebase
\* returns nil.
sendNotifications_SendMessage ==
  /\ pc = "notify"
  /\ phases' = Append(phases, "Notify")
  /\ \E r \in Outcomes(TRUE) :
       /\ Log([Call("Notify.SendMessage") EXCEPT
                 !.level = "success", !.title = "AI Rebaser - Rebase Completed",
                 !.text = SuccessMessage(conflicts, pr.Number), !.url = pr.HTMLURL], r)
       /\ phaseOk' = IF r = "ok" THEN phaseOk \cup {"Notify"} ELSE phaseOk
       /\ ret' = AfterSendNotifications(
                   IF r = "ok" THEN nil
                   ELSE Errorf(<<"failed to send notification: ">>, Cause(r)))
  /\ pc' = "cleanup"
  /\ UNCHANGED <<cfgVars, schedVars, envVars, dirVars, panicking, localVars, failed,
                 err, exVars>>

\* What performRebase tells sendErrorNotification, and how it wraps the
\* error, by the phase that failed.
FailureTitle(phase) ==
  CASE phase = "Setup" -> "AI Rebaser - Setup Failed"
    [] phase = "Rebase" -> "AI Rebaser - Git Rebase Failed"
    [] phase = "ResolveConflicts" -> "AI Rebaser - Conflict Resolution Failed"
    [] phase = "Test" -> "AI Rebaser - Tests Failed"
    [] phase = "Publish" -> "AI Rebaser - PR Creation Failed"

FailureMessage(phase, cs) ==
  CASE phase = "Setup" -> <<"Failed to setup working directory">>
    [] phase = "Rebase" -> <<"Failed to perform git rebase">>
    [] phase = "ResolveConflicts" ->
         <<"Failed to resolve ">> \o Itoa(Len(cs)) \o <<" ", "conflict", "s with AI">>
    [] phase = "Test" -> <<"Tests failed after rebase">>
    [] phase = "Publish" -> <<"Failed to create pull request">>

FailurePrefix(phase) ==
  CASE phase = "Setup" -> <<"setup failed: ">>
    [] phase = "Rebase" -> <<"git rebase failed: ">>
    [] phase = "ResolveConflicts" -> <<"conflict", " resolution failed: ">>
    [] phase = "Test" -> <<"tests failed", ": ">>
    [] phase = "Publish" -> <<"PR creation failed: ">>

\* sendErrorNotification: Notify.SendMessage at error level, its error only
\* logged; then performRebase returns the wrapped error.
sendErrorNotification_SendMessage ==
  /\ pc = "notify_error"
  /\ \E r \in Outcomes(TRUE) :
       Log([Call("Notify.SendMessage") EXCEPT
              !.level = "error", !.title = FailureTitle(failed),
              !.text = FailureMessage(failed, conflicts) \o <<"\n\nError: ">> \o err], r)
  /\ ret' = Errorf(FailurePrefix(failed), err)
  /\ pc' = "cleanup"
  /\ UNCHANGED <<cfgVars, schedVars, envVars, dirVars, panicking, phases, phaseOk,
                 localVars, failed, err, exVars>>

\* ------------------------------------------------------------------ cleanup
\* A variant of CleanupTarget that does not look at KeepArtifacts.
CleanupTargetAlways(keep, dir) == dir

\* cleanupWorkingDirectory: the directory it removes (0: none).
CleanupTarget(keep, dir) == IF keep THEN 0 ELSE dir

\* The deferred cleanupWorkingDirectory(cfg); an error of os.RemoveAll is
\* logged. Then performRebase returns (or goes on panicking).
cleanupWorkingDirectory ==
  /\ pc = "cleanup"
  /\ LET d == CleanupTarget(KeepArtifacts, ActualWorkingDir) IN
     IF d = 0
     THEN UNCHANGED <<fs, calls>>
     ELSE \E r \in Outcomes(FALSE) :
            /\ Log([Call("os.RemoveAll") EXCEPT !.dir = d], r)
            /\ fs' = IF r = "ok" THEN fs \ {d} ELSE fs
  /\ pc' = "returned"
  /\ UNCHANGED <<cfgVars, schedVars, envVars, ActualWorkingDir, lastBranch, panicking, phases,
                 phaseOk, localVars, errVars, exVars>>

\* Where performRebase is inside a phase.
PhasePcs == {"setup", "clone", "fetch_fallback", "add_remote", "fetch", "create_branch",
             "rebase", "get_conflicts", "ai_resolve", "git_resolve", "commit_message",
             "commit", "run_tests", "push", "pr_description", "create_pr",
             "add_reviewers", "notify"}

\* A collaborator panics inside a phase: the stack unwinds through the
\* deferred cleanup of performRebase.
performRebase_Panic ==
  /\ pc \in PhasePcs
  /\ panicking' = TRUE
  /\ pc' = "cleanup"
  /\ UNCHANGED <<cfgVars, schedVars, envVars, dirVars, histVars, localVars, errVars,
                 exVars>>

\* ------------------------------------------------ the extractor on its own
\* A line that begins like the separator but goes on.
SepSpaceLine == <<"=======", " ", "x">>
LineAlphabet == {StartLine, SepLine, SepSpaceLine, EndLine} \cup PlainLines

RECURSIVE SeqsUpTo(_, _)
SeqsUpTo(S, n) ==
  IF n = 0 THEN {<<>>}
  ELSE LET shorter == SeqsUpTo(S, n - 1)
       IN shorter \cup {Append(q, x) : q \in shorter, x \in S}

\* Working trees with one unmerged file of at most MaxLines lines.
SingleFileTrees ==
  {[listing |-> <<FileNames[1]>>,
    data |-> [f \in {FileNames[1]} |-> [ok |-> TRUE, text |-> FileText(lines)]]] :
     lines \in SeqsUpTo(LineAlphabet, MaxLines)}

\* Texts for the files of trees with several unmerged files.
FewTexts ==
  {OneRegionText,
   FileText(<<StartLine, <<"x">>, <<"y">>, SepLine, EndLine>>),
   FileText(<<<<"x">>, <<"y">>>>)}

\* Working trees with up to MaxFiles unmerged files, listed in any order, each
\* readable with one of FewTexts, or not readable.
SeveralFileTrees ==
  LET names == {FileNames[i] : i \in 1..MaxFiles}
      listings == {q \in SeqsUpTo(names, MaxFiles) :
                     \A i, j \in 1..Len(q) : i # j => q[i] # q[j]}
  IN {[listing |-> q, data |-> d] :
        q \in listings,
        d \in [names -> {[ok |-> TRUE, text |-> t] : t \in FewTexts}
                        \cup {[ok |-> FALSE, text |-> <<>>]}]}

\* One conflict region with the plain lines before it: the lines of each
\* side, and the separator either bare or followed by text.
RegionShapes ==
  LET side == {<<>>} \cup {<<l>> : l \in PlainLines} IN
  {[before |-> b, ours |-> o, sep |-> m, theirs |-> t] :
     b \in {<<>>, <<<<"x">>>>}, o \in side, m \in {SepLine, SepSpaceLine}, t \in side}

RECURSIVE RegionLines(_)
RegionLines(shapes) ==
  IF shapes = <<>> THEN <<>>
  ELSE LET sh == shapes[1]
       IN sh.before \o <<StartLine>> \o sh.ours \o <<sh.sep>> \o sh.theirs \o <<EndLine>>
          \o RegionLines(Tail(shapes))

\* Working trees with one unmerged file that holds from two to MaxRegions
\* conflict regions.
MultiRegionTrees ==
  {[listing |-> <<FileNames[1]>>,
    data |-> [f \in {FileNames[1]} |->
                [ok |-> TRUE, text |-> FileText(RegionLines(shapes))]]] :
     shapes \in {q \in SeqsUpTo(RegionShapes, MaxRegions) : Len(q) >= 2}}

\* The working trees the extractor is applied to.
IsExtractorTree(t) ==
  \/ t \in SingleFileTrees
  \/ t \in SeveralFileTrees
  \/ t \in MultiRegionTrees

\* Service.GetConflicts on a working tree: git diff fails and the error is
\* returned, or the files it lists are read.
Extract_GetConflicts ==
  /\ exPc = "input"
  /\ \E r \in {"ok", "fail"} :
       IF r = "ok"
       THEN exOut' = GetConflicts(exTree) /\ exErr' = nil
       ELSE /\ exOut' = <<>>
            /\ exErr' = Errorf(<<"failed to get ", "conflict", " files: ">>, Cause(r))
  /\ exPc' = "done"
  /\ UNCHANGED <<cfgVars, schedVars, envVars, dirVars, pc, panicking, histVars,
                 localVars, errVars, exTree, tsVars, mgVars>>

\* ---------------------------------------------- the test service on its own
\* The names test commands are configured with (README: "build", "test");
\* nothing in LoadConfig keeps two commands from having the same name.
TestNames == {"build", "test"}
MaxCommands == 3

\* The lists of commands a test service may be made with (Tests.Commands).
CommandLists ==
  SeqsUpTo({[Name |-> n, WorkingDir |-> <<>>] : n \in TestNames}, MaxCommands)

\* Service.RunTests(ctx, workingDir) of a service made with tsCommands.
Tests_RunTests ==
  /\ tsPc = "input"
  /\ tsResult' = RunTests(tsCommands, internalDir(1), tsOuts)
  /\ tsPc' = "done"
  /\ UNCHANGED <<cfgVars, schedVars, envVars, dirVars, pc, panicking, histVars,
                 localVars, errVars, exPc, exTree, exOut, exErr, tsCommands, tsOuts,
                 mgVars>>

\* ------------------------------------------- MergePullRequest on its own
\* A pull request as the GitHub API gives it: State, Mergeable (a *bool:
\* <<>> is nil, GitHub has not computed it yet) and Merged.
PullRequests ==
  {p \in [State : {"open", "closed"}, Mergeable : {<<>>, <<TRUE>>, <<FALSE>>},
          Merged : BOOLEAN] : p.Merged => p.State = "closed"}

\* A variant of MergeRefusal that looks at the state only.
MergeRefusalStateOnly(p, prNumber) ==
  IF p.State # "open"
  THEN <<"pull request #">> \o Itoa(prNumber) \o
       <<" is not open (state: ", p.State, ")">>
  ELSE nil

\* MergePullRequest: the error its two checks of pr give (nil: go on).
MergeRefusal(p, prNumber) ==
  IF p.Mergeable # <<>> /\ ~p.Mergeable[1]
  THEN <<"pull request #">> \o Itoa(prNumber) \o <<" is not mergeable">>
  ELSE IF p.State # "open"
  THEN <<"pull request #">> \o Itoa(prNumber) \o
       <<" is not open (state: ", p.State, ")">>
  ELSE nil

\* MergePullRequest: PullRequests.Get.
MergePullRequest_Get ==
  /\ mgPc = "input"
  /\ mgCalls' = Append(mgCalls, "PullRequests.Get")
  /\ \E r \in {"ok", "fail"} :
       IF r = "ok"
       THEN mgSeen' = <<mgRemote>> /\ mgPc' = "got" /\ UNCHANGED mgErr
       ELSE /\ mgErr' = Errorf(<<"failed to get pull request: ">>, Cause(r))
            /\ mgPc' = "done"
            /\ UNCHANGED mgSeen
  /\ UNCHANGED <<cfgVars, schedVars, envVars, dirVars, pc, panicking, histVars,
                 localVars, errVars, exPc, exTree, exOut, exErr, tsVars, mgNumber,
                 mgRemote>>

\* Between the two API calls the pull request changes on GitHub: somebody
\* closes or reopens it, or its mergeability is computed anew.
GitHub_Update ==
  /\ mgPc = "got"
  /\ \E p \in PullRequests : p # mgRemote /\ p.Merged = mgRemote.Merged /\ mgRemote' = p
  /\ UNCHANGED <<cfgVars, schedVars, envVars, dirVars, pc, panicking, histVars,
                 localVars, errVars, exPc, exTree, exOut, exErr, tsVars, mgPc,
                 mgNumber, mgSeen, mgCalls, mgErr>>

\* How PullRequests.Merge may end for the pull request GitHub holds.
MergeOutcomes(remote) ==
  IF remote.State = "open" /\ remote.Mergeable # <<FALSE>>
  THEN {"merged", "not_merged", "fail"}
  ELSE {"not_merged", "fail"}

\* MergePullRequest from the checks of pr on: PullRequests.Merge with the
\* rebase method, unless a check refuses.
MergePullRequest_Merge ==
  /\ mgPc = "got"
  /\ LET e == MergeRefusal(mgSeen[1], mgNumber) IN
     IF e # nil
     THEN mgErr' = e /\ UNCHANGED <<mgCalls, mgRemote>>
     ELSE /\ mgCalls' = Append(mgCalls, "PullRequests.Merge")
          /\ \E r \in MergeOutcomes(mgRemote) :
               /\ mgRemote' = IF r = "merged"
                              THEN [mgRemote EXCEPT !.State = "closed", !.Merged = TRUE]
                              ELSE mgRemote
               /\ mgErr' = IF r = "merged" THEN nil
                           ELSE IF r = "fail"
                           THEN Errorf(<<"failed to merge pull request: ">>, Cause(r))
                           ELSE <<"pull request #">> \o Itoa(mgNumber) \o
                                <<" was not merged: ">>
  /\ mgPc' = "done"
  /\ UNCHANGED <<cfgVars, schedVars, envVars, dirVars, pc, panicking, histVars,
                 localVars, errVars, exPc, exTree, exOut, exErr, tsVars, mgNumber,
                 mgSeen>>

\* None of the services is exercised on its own.
ExtractOff == exPc = "off" /\ exTree = NoTree /\ exOut = <<>> /\ exErr = nil
TestsOff == tsPc = "off" /\ tsCommands = <<>> /\ tsOuts = <<>> /\ tsResult = NoResult
MergeOff ==
  /\ mgPc = "off"
  /\ mgNumber = 0
  /\ mgRemote = [State |-> "closed", Mergeable |-> <<>>, Merged |-> FALSE]
  /\ mgSeen = <<>>
  /\ mgCalls = <<>>
  /\ mgErr = nil

\* ------------------------------------------------------------ specification
InitPipeline ==
  /\ schedPc = "start"
  /\ schedResult = NotRun
  /\ cancelled = FALSE
  /\ tickPending = FALSE
  /\ runs = 0
  /\ clock = 0
  /\ fs = {}
  /\ ActualWorkingDir = 0
  /\ lastBranch = <<>>
  /\ pc = "idle"
  /\ panicking = FALSE
  /\ phases = <<>>
  /\ phaseOk = {}
  /\ calls = <<>>
  /\ interrupted = FALSE
  /\ branchName = 0
  /\ tree = NoTree
  /\ conflicts = <<>>
  /\ idx = 0
  /\ resolution = <<>>
  /\ commitMessage = <<>>
  /\ pr = NoPR
  /\ testResult = NoResult
  /\ failed = ""
  /\ err = nil
  /\ ret = NotRun

\* cfg.DryRun is read by no step of the program; runs with it set are those
\* of SpecDryRun.
Init ==
  /\ RunOnce \in BOOLEAN
  /\ DryRun = FALSE
  /\ KeepArtifacts \in BOOLEAN
  /\ ReviewersTeam \in {"", "core-team"}
  /\ InitPipeline
  /\ ExtractOff
  /\ TestsOff
  /\ MergeOff

Next ==
  \/ runRebaser_Start
  \/ runRebaser_RunReturned
  \/ runRebaser_Panicked
  \/ runRebaser_SelectDone
  \/ runRebaser_SelectTick
  \/ main_Signal
  \/ Ticker_Fire
  \/ Clock_Second
  \/ setupWorkingDirectory_MkdirTemp
  \/ setupWorkingDirectory_Clone
  \/ setupWorkingDirectory_FetchFallback
  \/ setupWorkingDirectory_AddRemote
  \/ setupWorkingDirectory_Fetch
  \/ performGitRebase_CreateBranch
  \/ performGitRebase_Rebase
  \/ performGitRebase_GetConflicts
  \/ resolveConflictsWithAI_AIResolve
  \/ resolveConflictsWithAI_GitResolve
  \/ resolveConflictsWithAI_CommitMessage
  \/ resolveConflictsWithAI_Commit
  \/ runTests_RunTests
  \/ createPullRequest_Push
  \/ createPullRequest_PRDescription
  \/ createPullRequest_CreatePR
  \/ createPullRequest_AddReviewers
  \/ sendNotifications_SendMessage
  \/ sendErrorNotification_SendMessage
  \/ cleanupWorkingDirectory
  \/ performRebase_Panic

Spec == Init /\ [][Next]_vars

\* The program started with dry-run mode enabled.
InitDryRun ==
  /\ RunOnce \in BOOLEAN
  /\ DryRun = TRUE
  /\ KeepArtifacts \in BOOLEAN
  /\ ReviewersTeam \in {"", "core-team"}
  /\ InitPipeline
  /\ ExtractOff
  /\ TestsOff
  /\ MergeOff

SpecDryRun == InitDryRun /\ [][Next]_vars

\* Progress the program is sure to make while it runs. A step of the process
\* itself, or a local operating-system call, is taken; so is an operation
\* that its own timeout bounds: a test command (context.WithTimeout with
\* cfg.Tests.Timeout, which is never 0 once the configuration is loaded) and
\* the Slack webhook call (an http.Client with a 30 s Timeout). The other
\* external operations carry no timeout: the git subprocesses run under the
\* application context, go-git's Clone, Fetch and Push take no context, and
\* the OpenAI and GitHub clients are built without a timeout. Such an
\* operation returns when its peer answers, which nothing guarantees.
Bounded ==
  /\ WF_vars(runRebaser_Start)
  /\ WF_vars(runRebaser_RunReturned)
  /\ WF_vars(runRebaser_Panicked)
  /\ WF_vars(setupWorkingDirectory_MkdirTemp)
  /\ WF_vars(setupWorkingDirectory_AddRemote)
  /\ WF_vars(performGitRebase_CreateBranch)
  /\ WF_vars(resolveConflictsWithAI_Commit)
  /\ WF_vars(runTests_RunTests)
  /\ WF_vars(sendNotifications_SendMessage)
  /\ WF_vars(sendErrorNotification_SendMessage)
  /\ WF_vars(cleanupWorkingDirectory)

SpecBounded == Init /\ [][Next]_vars /\ Bounded

\* Progress after shutdown was signalled: an operation that is given the
\* context returns once the context is cancelled (exec.CommandContext kills
\* the subprocess, an HTTP request made with the context is abandoned), and
\* the select of runRebaser, whose ctx.Done() case is then always ready,
\* takes that case sooner or later. go-git's Clone, Fetch and Push are not
\* given the context, so cancelling it does not end them.
Cancellable ==
  /\ WF_vars(cancelled /\ performGitRebase_Rebase)
  /\ WF_vars(cancelled /\ performGitRebase_GetConflicts)
  /\ WF_vars(cancelled /\ resolveConflictsWithAI_AIResolve)
  /\ WF_vars(cancelled /\ resolveConflictsWithAI_GitResolve)
  /\ WF_vars(cancelled /\ resolveConflictsWithAI_CommitMessage)
  /\ WF_vars(cancelled /\ createPullRequest_PRDescription)
  /\ WF_vars(cancelled /\ createPullRequest_CreatePR)
  /\ WF_vars(cancelled /\ createPullRequest_AddReviewers)
  /\ WF_vars(runRebaser_SelectDone)

SpecShutdown == Init /\ [][Next]_vars /\ Bounded /\ Cancellable

\* The conflict extractor applied to every working tree of IsExtractorTree.
InitExtract ==
  /\ RunOnce = TRUE
  /\ DryRun = FALSE
  /\ KeepArtifacts = FALSE
  /\ ReviewersTeam = ""
  /\ InitPipeline
  /\ exPc = "input"
  /\ IsExtractorTree(exTree)
  /\ exOut = <<>>
  /\ exErr = nil
  /\ TestsOff
  /\ MergeOff

NextExtract == Extract_GetConflicts

SpecExtract == InitExtract /\ [][NextExtract]_vars

\* The test service alone: one call of RunTests for every list of commands
\* and every way they may end (RunCommand gives the result, never an error).
InitTests ==
  /\ RunOnce = TRUE
  /\ DryRun = FALSE
  /\ KeepArtifacts = FALSE
  /\ ReviewersTeam = ""
  /\ InitPipeline
  /\ ExtractOff
  /\ MergeOff
  /\ tsPc = "input"
  /\ tsCommands \in CommandLists
  /\ tsOuts \in [1..Len(tsCommands) -> {"ok", "fail"}]
  /\ tsResult = NoResult

NextTests == Tests_RunTests

SpecTests == InitTests /\ [][NextTests]_vars

\* MergePullRequest alone, for every pull request GitHub may hold.
InitMerge ==
  /\ RunOnce = TRUE
  /\ DryRun = FALSE
  /\ KeepArtifacts = FALSE
  /\ ReviewersTeam = ""
  /\ InitPipeline
  /\ ExtractOff
  /\ TestsOff
  /\ mgPc = "input"
  /\ mgNumber \in PRNumbers
  /\ mgRemote \in PullRequests
  /\ mgSeen = <<>>
  /\ mgCalls = <<>>
  /\ mgErr = nil

NextMerge ==
  \/ MergePullRequest_Get
  \/ GitHub_Update
  \/ MergePullRequest_Merge

SpecMerge == InitMerge /\ [][NextMerge]_vars

\* ------------------------------------------------------------- properties
\* The calls of this run to the collaborator operation op, in order.
CallsOf(op) == SelectSeq(calls, LAMBDA c : c.op = op)
Called(op) == \E i \in 1..Len(calls) : calls[i].op = op

\* C1: in every run the phases start only in the order Setup, Rebase,
\* ResolveConflicts, Test, Publish, Notify: each at most once, never after a
\* later one, and (ResolveConflicts aside, which may be skipped) only after
\* every earlier phase of the run returned success.
C1_PhasesInOrder ==
  /\ \A i, j \in 1..Len(phases) :
       i < j => PhaseIndex(phases[i]) < PhaseIndex(phases[j])
  /\ \A j \in 1..Len(phases) :
       \A k \in 1..(PhaseIndex(phases[j]) - 1) :
         \/ Phases[k] \in phaseOk
         \/ /\ Phases[k] = "ResolveConflicts"
            /\ \A i \in 1..Len(phases) : phases[i] # "ResolveConflicts"

\* A run went through all six phases and returned.
C1_Witness ==
  /\ pc = "returned"
  /\ phases = Phases
  /\ phaseOk = {Phases[k] : k \in 1..Len(Phases)}

\* C2: if the Test phase yields an unsuccessful TestResult, the run returns
\* an error whose message contains "tests failed" and every name in
\* FailedTests, and neither Git.Push nor GitHub.CreatePullRequest is called
\* in that run.
C2_TestFailureStopsRun ==
  \A i \in 1..Len(calls) :
    (calls[i].op = "Test.RunTests" /\ ~calls[i].ok) =>
      /\ ~Called("Git.Push")
      /\ ~Called("GitHub.CreatePullRequest")
      /\ (pc = "returned" /\ ~panicking) =>
           /\ Contains(ret, <<"tests failed">>)
           /\ \A k \in 1..Len(calls[i].text) : Contains(ret, <<calls[i].text[k]>>)

\* A run returned after both test commands failed.
C2_Witness ==
  /\ pc = "returned"
  /\ ~panicking
  /\ \E i \in 1..Len(calls) :
       calls[i].op = "Test.RunTests" /\ ~calls[i].ok /\ Len(calls[i].text) = 2

\* The run created its temporary directory (directory `runs`).
CreatedDir == \E i \in 1..Len(calls) : calls[i].op = "os.MkdirTemp" /\ calls[i].ok

\* C3 as stated: after performRebase returns on any exit path (success, a
\* failure in any phase, a panic inside a phase), the temporary directory the
\* run created no longer exists when keep-artifacts is unset, and still
\* exists untouched when keep-artifacts is set.
C3_DirectoryGoneAfterReturn ==
  (pc = "returned" /\ CreatedDir) =>
    /\ KeepArtifacts => (runs \in fs /\ ~Called("os.RemoveAll"))
    /\ ~KeepArtifacts => runs \notin fs

\* C3 amended: as above, except that with keep-artifacts unset the directory
\* remains when os.RemoveAll itself failed; cleanup was then attempted on it
\* as the last call of the run, on every exit path.
C3_DirectoryGoneUnlessRemoveFailed ==
  (pc = "returned" /\ CreatedDir) =>
    /\ KeepArtifacts => (runs \in fs /\ ~Called("os.RemoveAll"))
    /\ ~KeepArtifacts =>
         /\ Len(CallsOf("os.RemoveAll")) = 1
         /\ calls[Len(calls)].op = "os.RemoveAll"
         /\ calls[Len(calls)].dir = runs
         /\ runs \in fs <=> ~calls[Len(calls)].ok

\* A panic inside a phase, keep-artifacts unset: the directory the run
\* created is gone when performRebase is left.
C3_Witness ==
  /\ pc = "returned"
  /\ panicking
  /\ CreatedDir
  /\ ~KeepArtifacts
  /\ runs \notin fs

\* C4: each run that fails in Setup, Rebase, ResolveConflicts, Test or
\* Publish issues exactly one Notify.SendMessage call, at error level, before
\* performRebase returns the wrapped error; no success-level notification is
\* sent in a failed run.
C4_OneErrorNotification ==
  failed # "" =>
    LET sent == CallsOf("Notify.SendMessage") IN
    /\ failed \in {"Setup", "Rebase", "ResolveConflicts", "Test", "Publish"}
    /\ Len(sent) <= 1
    /\ \A i \in 1..Len(sent) : sent[i].level = "error"
    /\ pc \in {"cleanup", "returned"} =>
         /\ Len(sent) = 1
         /\ ret = Errorf(FailurePrefix(failed), err)
         /\ ret # nil

\* A run failed in Publish and returned, its one notification sent.
C4_Witness ==
  /\ pc = "returned"
  /\ failed = "Publish"
  /\ Len(CallsOf("Notify.SendMessage")) = 1

\* C5: at most one performRebase run is in progress at any time: a run
\* starts only when none is executing, so a tick that fires during a run
\* never starts a second, overlapping run.
C5_NoOverlappingRuns ==
  [][runs' # runs => (pc = "idle" /\ pc' = "setup" /\ runs' = runs + 1)]_vars

\* A tick fired while the initial run was executing; no second run began.
C5_Witness ==
  /\ tickPending
  /\ schedPc = "initial"
  /\ pc = "returned"
  /\ runs = 1

\* C6 as stated: a shutdown signal that arrives while a run is in progress
\* does not interrupt that run: no operation of the in-flight run is made to
\* fail by the cancellation.
C6_SignalDoesNotFailRun == interrupted => ~Contains(err, CtxErr)

\* C7: the scheduler starts one run immediately; in run-once mode it performs
\* exactly one run and then returns that run's result; in periodic mode a run
\* that returns an error (the initial run or a periodic one) does not stop
\* the loop, which is left only on cancellation, and ticks go on starting runs.
C7_Scheduler ==
  [][/\ (schedPc = "start" /\ schedPc' # "start") => (runs' = 1 /\ pc' = "setup")
     /\ RunOnce => runs' <= 1
     /\ (schedPc = "once" /\ pc = "returned" /\ ~panicking /\ pc' = "idle") =>
          (schedPc' = "returned" /\ schedResult' = ret)
     /\ (schedPc \in {"initial", "periodic"} /\ pc = "returned" /\ ~panicking
         /\ pc' = "idle") => schedPc' = "select"
     /\ (schedPc = "select" /\ schedPc' # "select") =>
          \/ schedPc' = "periodic" /\ tickPending /\ runs' = runs + 1
          \/ schedPc' = "returned" /\ cancelled /\ schedResult' = nil]_vars

\* The initial run returned an error from os.MkdirTemp (no directory was
\* ever recorded), and a later tick started the second run.
C7_Witness ==
  /\ schedPc = "periodic"
  /\ runs = 2
  /\ pc = "setup"
  /\ ActualWorkingDir = 0
  /\ ~cancelled

\* strings.HasSuffix(s, t)
EndsWith(s, t) == Len(t) <= Len(s) /\ SubSeq(s, Len(s) - Len(t) + 1, Len(s)) = t

\* C8 as stated: a rebase failure that is not a merge conflict (git rebase
\* ending with an exit status other than 1, or not starting, or killed) is
\* fatal: the run fails in Rebase, and no Test, Publish or success
\* notification happens in it.
C8_NonConflictRebaseFailureIsFatal ==
  \A i \in 1..Len(calls) :
    (/\ calls[i].op = "Git.Rebase"
     /\ calls[i].text # nil
     /\ ~EndsWith(calls[i].text, <<"exit status ", "1">>)) =>
      /\ failed = "Rebase"
      /\ ~Called("Test.RunTests")
      /\ ~Called("Git.Push")
      /\ ~Called("GitHub.CreatePullRequest")
      /\ ~Called("Notify.SendMessage") \/ CallsOf("Notify.SendMessage")[1].level = "error"

\* The lines of a file whose text ends every line with a newline.
LinesOf(text) ==
  LET q == Split(text) IN IF q[Len(q)] = <<>> THEN SubSeq(q, 1, Len(q) - 1) ELSE q

\* The lines hold exactly one conflict region: a start marker at s, the
\* separator at m, an end marker at e, and plain lines elsewhere.
RegionAt(lines, s, m, e) ==
  /\ s < m /\ m < e
  /\ lines[s] = StartLine /\ lines[m] = SepLine /\ lines[e] = EndLine
  /\ \A i \in (1..Len(lines)) \ {s, m, e} : lines[i] \in PlainLines
HasOneRegion(lines) == \E s, m, e \in 1..Len(lines) : RegionAt(lines, s, m, e)
RegionOf(lines) ==
  CHOOSE r \in [s : 1..Len(lines), m : 1..Len(lines), e : 1..Len(lines)] :
    RegionAt(lines, r.s, r.m, r.e)

\* C9 as stated: for a working tree whose unmerged listing names N readable
\* files, each with exactly one conflict region, GetConflicts returns exactly
\* N conflicts in listing order; Ours of each is the lines strictly between
\* the start marker and the separator, Theirs the lines strictly between the
\* separator and the end marker.
C9_ExtractorReturnsRegions ==
  (/\ exPc = "done"
   /\ exErr = nil
   /\ \A i \in 1..Len(exTree.listing) :
        /\ exTree.data[exTree.listing[i]].ok
        /\ HasOneRegion(LinesOf(exTree.data[exTree.listing[i]].text))) =>
    /\ Len(exOut) = Len(exTree.listing)
    /\ \A i \in 1..Len(exOut) :
         LET lines == LinesOf(exTree.data[exTree.listing[i]].text)
             r == RegionOf(lines)
         IN /\ exOut[i].File = exTree.listing[i]
            /\ exOut[i].Ours = JoinLines(SubSeq(lines, r.s + 1, r.m - 1))
            /\ exOut[i].Theirs = JoinLines(SubSeq(lines, r.m + 1, r.e - 1))

\* C10: during ResolveConflicts, AI.ResolveConflict is called at most once
\* per extracted conflict, in the order of the conflict list, and the call
\* for conflict i+1 comes only after the resolution of conflict i was
\* applied and staged.
C10_OneAICallPerConflictInOrder ==
  LET ai == CallsOf("AI.ResolveConflict") IN
  /\ Len(ai) <= Len(conflicts)
  /\ \A k \in 1..Len(ai) : ai[k].num = k /\ ai[k].file = conflicts[k].File
  /\ \A i \in 1..Len(calls) :
       (calls[i].op = "AI.ResolveConflict" /\ calls[i].num > 1) =>
         /\ calls[i - 1].op = "Git.ResolveConflict"
         /\ calls[i - 1].ok
         /\ calls[i - 1].num = calls[i].num - 1
         /\ calls[i - 1].file = conflicts[calls[i].num - 1].File
         /\ tree.data[calls[i - 1].file].text = calls[i - 1].text

\* The AI was asked about the second conflict, the first being applied.
C10_Witness ==
  /\ pc = "git_resolve"
  /\ Len(CallsOf("AI.ResolveConflict")) = 2
  /\ Len(conflicts) = 2

\* The calls of the conflict resolution loop and of the commit after it.
ResolveOps == {"AI.ResolveConflict", "Git.ResolveConflict"}

\* C11: if AI.ResolveConflict or Git.ResolveConflict fails for the k-th
\* conflict, no resolve call (AI or Git) is made for a later conflict or
\* again for the k-th, Git.Commit is never called in that run, and the error
\* returned names the k-th conflict's file.
C11_ResolveFailureAborts ==
  \A i \in 1..Len(calls) :
    (calls[i].op \in ResolveOps /\ ~calls[i].ok) =>
      /\ \A j \in (i + 1)..Len(calls) :
           calls[j].op \notin ResolveOps \cup {"AI.GenerateCommitMessage"}
      /\ ~Called("Git.Commit")
      /\ failed = "ResolveConflicts"
      /\ calls[i].file = conflicts[calls[i].num].File
      /\ Contains(err, <<calls[i].file>>)
      /\ pc = "returned" => Contains(ret, <<calls[i].file>>)

\* The resolution of the second conflict could not be applied, the first
\* having been applied; the run returned.
C11_Witness ==
  /\ pc = "returned"
  /\ \E i \in 1..Len(calls) :
       /\ calls[i].op = "Git.ResolveConflict"
       /\ ~calls[i].ok
       /\ calls[i].num = 2

\* Every conflict of the run was resolved: applied and staged.
AllResolved ==
  /\ Len(conflicts) > 0
  /\ Len(SelectSeq(calls, LAMBDA c : c.op = "Git.ResolveConflict" /\ c.ok)) = Len(conflicts)

\* C12: when every conflict of a run is resolved successfully,
\* AI.GenerateCommitMessage is called exactly once, with the paths of all
\* conflicted files in extraction order, and Git.Commit is called exactly
\* once, after the last file was staged, with the generated message.
C12_OneCommitForAllConflicts ==
  LET gen == CallsOf("AI.GenerateCommitMessage")
      com == CallsOf("Git.Commit")
  IN /\ Len(gen) <= 1
     /\ Len(com) <= 1
     /\ (AllResolved /\ ~panicking /\ pc # "commit_message") => Len(gen) = 1
     /\ (AllResolved /\ ~panicking /\ pc \notin {"commit_message", "commit"}
         /\ gen[1].ok) => Len(com) = 1
     /\ \A i \in 1..Len(calls) :
          calls[i].op = "AI.GenerateCommitMessage" =>
            /\ AllResolved
            /\ calls[i - 1].op = "Git.ResolveConflict"
            /\ calls[i - 1].ok
            /\ calls[i - 1].num = Len(conflicts)
            /\ calls[i].text = [k \in 1..Len(conflicts) |-> conflicts[k].File]
     /\ \A i \in 1..Len(calls) :
          calls[i].op = "Git.Commit" =>
            /\ calls[i - 1].op = "AI.GenerateCommitMessage"
            /\ calls[i - 1].ok
            /\ calls[i].text = commitMessage
            /\ commitMessage \in CommitTexts

\* Two conflicts were resolved and committed; the run is about to test.
C12_Witness ==
  /\ pc = "run_tests"
  /\ Len(conflicts) = 2
  /\ Len(CallsOf("Git.Commit")) = 1
  /\ "ResolveConflicts" \in phaseOk

\* C13: when the extractor returns zero conflicts, the run makes no
\* AI.ResolveConflict, AI.GenerateCommitMessage or Git.Commit call, does not
\* start ResolveConflicts, and goes from Rebase directly to Test.
C13_NoConflictsSkipsResolution ==
  \A i \in 1..Len(calls) :
    (calls[i].op = "Git.GetConflicts" /\ calls[i].ok /\ Len(conflicts) = 0) =>
      /\ ~Called("AI.ResolveConflict")
      /\ ~Called("Git.ResolveConflict")
      /\ ~Called("AI.GenerateCommitMessage")
      /\ ~Called("Git.Commit")
      /\ \A k \in 1..Len(phases) : phases[k] # "ResolveConflicts"
      /\ (i = Len(calls) /\ ~panicking) => pc = "run_tests"
      /\ i < Len(calls) => calls[i + 1].op \in {"Test.RunTests", "os.RemoveAll"}

\* The rebase left no conflict and the tests have run.
C13_Witness ==
  /\ Len(conflicts) = 0
  /\ "Rebase" \in phaseOk
  /\ Called("Test.RunTests")

\* C14 as stated: when dry-run mode is enabled, a run never calls Git.Push,
\* GitHub.CreatePullRequest or GitHub.AddReviewers.
C14_DryRunMakesNoChanges ==
  DryRun =>
    /\ ~Called("Git.Push")
    /\ ~Called("GitHub.CreatePullRequest")
    /\ ~Called("GitHub.AddReviewers")

\* C15 as stated: every configured test command is executed with the
\* directory the orchestrator passes to RunTests (the run's rebased working
\* tree) as its working directory.
C15_TestsRunInWorkingTree ==
  Called("Test.RunTests") =>
    \A k \in 1..Len(testResult.Results) :
      testResult.Results[k].Dir = internalDir(ActualWorkingDir)

\* C16: RunTests runs every configured command exactly once, in configured
\* order, even when earlier commands fail; a failing command is reported as
\* a CommandResult with Success false, and the TestResult's Success is false
\* whenever at least one command failed (FailedTests naming those commands).
C16_EveryCommandRuns ==
  Called("Test.RunTests") =>
    LET res == testResult.Results
        bad == {k \in 1..Len(res) : ~res[k].Success}
    IN /\ Len(res) = Len(Commands)
       /\ \A k \in 1..Len(res) : res[k].Command = Commands[k].Name
       /\ testResult.Success <=> bad = {}
       /\ Len(testResult.FailedTests) = Cardinality(bad)
       /\ \A k \in bad :
            \E j \in 1..Len(testResult.FailedTests) :
              testResult.FailedTests[j] = Commands[k].Name
       /\ CallsOf("Test.RunTests")[1].ok = testResult.Success

\* The first command failed and the second still ran, successfully.
C16_Witness ==
  /\ Called("Test.RunTests")
  /\ Len(testResult.Results) = 2
  /\ ~testResult.Results[1].Success
  /\ testResult.Results[2].Success
  /\ ~testResult.Success

\* C17: GitHub.AddReviewers is called only when a reviewer team is
\* configured and only after the pull request was created, for that pull
\* request; if AddReviewers fails, the run still proceeds to Notify and
\* returns success.
C17_ReviewersBestEffort ==
  \A i \in 1..Len(calls) :
    calls[i].op = "GitHub.AddReviewers" =>
      /\ ReviewersTeam # ""
      /\ calls[i].file = ReviewersTeam
      /\ calls[i - 1].op = "GitHub.CreatePullRequest"
      /\ calls[i - 1].ok
      /\ calls[i].num = calls[i - 1].num
      /\ failed = ""
      /\ (i = Len(calls) /\ ~panicking) => pc = "notify"
      /\ (pc = "returned" /\ ~panicking) =>
           /\ ret = nil
           /\ calls[i + 1].op = "Notify.SendMessage"
           /\ calls[i + 1].level = "success"

\* AddReviewers failed and the run returned nil after notifying.
C17_Witness ==
  /\ pc = "returned"
  /\ ret = nil
  /\ \E i \in 1..Len(calls) : calls[i].op = "GitHub.AddReviewers" /\ ~calls[i].ok

\* C18: a failure of Notify.SendMessage never changes a run's outcome: if
\* the success notification fails the run still returns nil, and if an error
\* notification fails the run still returns the original phase error.
C18_NotifyFailureNotEscalated ==
  \A i \in 1..Len(calls) :
    (calls[i].op = "Notify.SendMessage" /\ ~calls[i].ok) =>
      /\ calls[i].level = "success" => (ret = nil /\ failed = "")
      /\ calls[i].level = "error" =>
           /\ failed # ""
           /\ ret = Errorf(FailurePrefix(failed), err)
           /\ ~Contains(ret, <<"failed to send notification: ">>)
      /\ pc \in {"cleanup", "returned"}

\* The success notification failed and the run returned nil.
C18_Witness ==
  /\ pc = "returned"
  /\ ret = nil
  /\ \E i \in 1..Len(calls) :
       calls[i].op = "Notify.SendMessage" /\ ~calls[i].ok /\ calls[i].level = "success"

\* The success-level notifications of this run.
SuccessNotes ==
  SelectSeq(calls, LAMBDA c : c.op = "Notify.SendMessage" /\ c.level = "success")
CreatedPR == \E j \in 1..Len(calls) : calls[j].op = "GitHub.CreatePullRequest" /\ calls[j].ok

\* C19: a run that creates a pull request sends exactly one success-level
\* notification, after the PR was created, whose message contains the PR
\* number returned by CreatePullRequest and the number of conflicts resolved
\* (in words, "no conflicts", when there were none) and whose URL is the PR's
\* link; no success-level notification is sent in a run that created no PR.
C19_OneSuccessNotification ==
  /\ Len(SuccessNotes) <= 1
  /\ (CreatedPR /\ pc \in {"cleanup", "returned"} /\ ~panicking) => Len(SuccessNotes) = 1
  /\ \A i \in 1..Len(calls) :
       (calls[i].op = "Notify.SendMessage" /\ calls[i].level = "success") =>
         /\ \E j \in 1..(i - 1) :
              /\ calls[j].op = "GitHub.CreatePullRequest"
              /\ calls[j].ok
              /\ pr.Number = calls[j].num
         /\ Contains(calls[i].text,
                     <<"PR #">> \o Itoa(pr.Number) \o <<" created and ready for review.">>)
         /\ calls[i].url = pr.HTMLURL
         /\ pr.HTMLURL = PRLink(pr.Number)
         /\ IF Len(conflicts) = 0
            THEN Contains(calls[i].text, <<"no ", "conflict", "s">>)
            ELSE Contains(calls[i].text,
                          <<"Resolved ">> \o Itoa(Len(conflicts)) \o <<" ", "conflict", "s">>)

\* Pull request 12 was created after two conflicts were resolved, and the
\* success notification was sent.
C19_Witness ==
  /\ pc = "returned"
  /\ pr.Number = 12
  /\ Len(conflicts) = 2
  /\ Len(SuccessNotes) = 1

\* The call op failed in this run.
CallFailed(op) == \E i \in 1..Len(calls) : calls[i].op = op /\ ~calls[i].ok

\* Git.Clone failed and so did the Git.Fetch attempted in its place.
CloneAndFallbackFailed ==
  \E i \in 1..(Len(calls) - 1) :
    /\ calls[i].op = "Git.Clone" /\ ~calls[i].ok
    /\ calls[i + 1].op = "Git.Fetch" /\ ~calls[i + 1].ok

\* The Git.Fetch that follows Git.AddRemote failed.
FinalFetchFailed ==
  \E i \in 1..(Len(calls) - 1) :
    /\ calls[i].op = "Git.AddRemote" /\ calls[i].ok
    /\ calls[i + 1].op = "Git.Fetch" /\ ~calls[i + 1].ok

\* After a failed Clone the run fetches into the same directory and, that
\* fetch succeeding, goes on with AddRemote and the final Fetch.
CloneFallsBackToFetch ==
  \A i \in 1..Len(calls) :
    /\ (calls[i].op = "Git.Clone" /\ ~calls[i].ok) =>
         /\ (i = Len(calls) /\ ~panicking) => pc = "fetch_fallback"
         /\ (i < Len(calls) /\ calls[i + 1].op # "os.RemoveAll") =>
              /\ calls[i + 1].op = "Git.Fetch"
              /\ calls[i + 1].dir = calls[i].dir
              /\ (calls[i + 1].ok /\ i + 1 = Len(calls) /\ ~panicking) => pc = "add_remote"
              /\ (calls[i + 1].ok /\ i + 1 < Len(calls)) =>
                   calls[i + 2].op \in {"Git.AddRemote", "os.RemoveAll"}
    /\ (calls[i].op = "Git.AddRemote" /\ calls[i].ok) =>
         /\ (i = Len(calls) /\ ~panicking) => pc = "fetch"
         /\ i < Len(calls) =>
              \/ calls[i + 1].op = "Git.Fetch" /\ calls[i + 1].dir = calls[i].dir
              \/ calls[i + 1].op = "os.RemoveAll"

\* C20 as stated: in Setup, a failed Clone is followed by a Fetch on the same
\* directory and, if that succeeds, by AddRemote and the final Fetch; Setup
\* fails exactly when both Clone and the fallback Fetch fail, or AddRemote
\* fails, or the final Fetch fails.
C20_SetupFailsExactlyWhen ==
  /\ CloneFallsBackToFetch
  /\ failed = "Setup" <=>
       (CloneAndFallbackFailed \/ CallFailed("Git.AddRemote") \/ FinalFetchFailed)

\* C20 amended: as above, and Setup also fails when os.MkdirTemp fails.
C20_SetupFailsExactlyWhenOrMkdirTemp ==
  /\ CloneFallsBackToFetch
  /\ failed = "Setup" <=>
       \/ CallFailed("os.MkdirTemp")
       \/ CloneAndFallbackFailed
       \/ CallFailed("Git.AddRemote")
       \/ FinalFetchFailed

\* Clone failed, the fetch in its place succeeded, and Setup returned nil.
C20_Witness ==
  /\ CallFailed("Git.Clone")
  /\ "Setup" \in phaseOk
  /\ pc = "create_branch"

\* C21 as stated: Git.GetConflicts is called after every rebase attempt,
\* whether Git.Rebase returned no error, a conflict error or any other
\* error: once performGitRebase is past its rebase step (and nothing
\* panicked), the run has called Git.GetConflicts.
C21_GetConflictsAfterEveryRebase ==
  (Called("Git.Rebase") /\ pc # "get_conflicts" /\ ~panicking) =>
    Called("Git.GetConflicts")

\* Conflict markers as the specification names them: a line is a marker by
\* its first seven characters.
IsStartMarker(line) == line # <<>> /\ line[1] = "<<<<<<<"
IsSeparator(line) == line # <<>> /\ line[1] = "======="
IsEndMarker(line) == line # <<>> /\ line[1] = ">>>>>>>"
IsMarker(line) == IsStartMarker(line) \/ IsSeparator(line) \/ IsEndMarker(line)

\* The lines of a captured side.
SideLines(side) == {Split(side)[i] : i \in 1..Len(Split(side))}

\* C22 as stated, for files as git writes them (one region, plain lines
\* around it): Content holds the whole file verbatim, and a line that occurs
\* only outside the region (before the start marker or after the end marker)
\* appears neither in Ours nor in Theirs.
C22_OutsideLinesNotCaptured ==
  (exPc = "done" /\ exErr = nil) =>
    \A i \in 1..Len(exOut) :
      LET text == exTree.data[exOut[i].File].text
          lines == LinesOf(text)
          r == RegionOf(lines)
          inside == {lines[k] : k \in r.s..r.e}
          outside == {lines[k] : k \in (1..Len(lines)) \ (r.s..r.e)}
      IN HasOneRegion(lines) =>
           /\ exOut[i].Content = text
           /\ \A l \in outside \ inside :
                l \notin SideLines(exOut[i].Ours) \cup SideLines(exOut[i].Theirs)

\* The markers of a file, in order.
Markers(lines) == SelectSeq(lines, IsMarker)

\* The file holds two or more regions, each a start marker, a separator and
\* an end marker in that order.
SeveralRegions(lines) ==
  LET m == Markers(lines) IN
  /\ Len(m) >= 6
  /\ Len(m) % 3 = 0
  /\ \A k \in 1..Len(m) :
       /\ k % 3 = 1 => IsStartMarker(m[k])
       /\ k % 3 = 2 => IsSeparator(m[k])
       /\ k % 3 = 0 => IsEndMarker(m[k])

\* The first region of such a file: its start, separator and end lines.
FirstRegion(lines) ==
  LET idx3 == {k \in 1..Len(lines) : IsMarker(lines[k])}
      s == CHOOSE k \in idx3 : \A j \in idx3 : k <= j
      m == CHOOSE k \in idx3 \ {s} : \A j \in idx3 \ {s} : k <= j
      e == CHOOSE k \in idx3 \ {s, m} : \A j \in idx3 \ {s, m} : k <= j
  IN [s |-> s, m |-> m, e |-> e]

\* C23 as stated: for a file that contains several conflict regions, Ours
\* and Theirs hold the lines of the first region only: Ours the lines
\* between its start marker and its separator, Theirs the lines between its
\* separator and its end marker; lines of later regions are not added.
C23_FirstRegionOnly ==
  (exPc = "done" /\ exErr = nil) =>
    \A i \in 1..Len(exOut) :
      LET lines == LinesOf(exTree.data[exOut[i].File].text)
          r == FirstRegion(lines)
      IN SeveralRegions(lines) =>
           /\ exOut[i].Ours = JoinLines(SubSeq(lines, r.s + 1, r.m - 1))
           /\ exOut[i].Theirs = JoinLines(SubSeq(lines, r.m + 1, r.e - 1))

\* The file has at least one line and no line of it is a conflict marker.
Unmarked(lines) == Len(lines) >= 1 /\ \A k \in 1..Len(lines) : ~IsMarker(lines[k])

\* The only error GetConflicts returns is that of the listing (git diff).
ListingError == <<"failed to get ", "conflict", " files: ">>

Readable(t) == SelectSeq(t.listing, LAMBDA f : t.data[f].ok)

\* C25: if reading an unmerged file fails, GetConflicts still returns
\* without error (its only error is that of listing the unmerged paths, and
\* then it returns no conflicts), and its result holds exactly the conflicts
\* of the other listed files, in listing order; the unreadable file is left
\* out of the result.
C25_UnreadableFileSkipped ==
  exPc = "done" =>
    /\ exErr # nil => (HasPrefix(exErr, ListingError) /\ exOut = <<>>)
    /\ exErr = nil =>
         /\ Len(exOut) = Len(Readable(exTree))
         /\ \A k \in 1..Len(exOut) :
              /\ exOut[k].File = Readable(exTree)[k]
              /\ exOut[k].Content = exTree.data[exOut[k].File].text
              /\ exTree.data[exOut[k].File].ok

\* The first of two listed files could not be read: the result is the
\* conflict of the second.
C25_Witness ==
  /\ exPc = "done"
  /\ exErr = nil
  /\ Len(exTree.listing) = 2
  /\ ~exTree.data[exTree.listing[1]].ok
  /\ exTree.data[exTree.listing[2]].ok
  /\ Len(exOut) = 1
  /\ exOut[1].File = exTree.listing[2]

\* The Git operations: each works in the clone under the directory it is given.
GitOps == {"Git.Clone", "Git.Fetch", "Git.AddRemote", "Git.CreateBranch", "Git.Rebase",
           "Git.GetConflicts", "Git.ResolveConflict", "Git.Commit", "Git.Push"}

\* C26: every run provisions a new working directory and works in it: the
\* directory os.MkdirTemp creates for a run did not exist before (whether
\* the earlier run failed or keep-artifacts left its directory in place),
\* and every Git operation of the run is given the directory this run
\* created, never one that an earlier run created.
C26_FreshWorkingDirectory ==
  [][LET created == (pc = "setup" /\ pc' = "clone")
         gitCall == /\ Len(calls') = Len(calls) + 1
                    /\ calls'[Len(calls')].op \in GitOps
     IN /\ created =>
             /\ ActualWorkingDir' \notin fs
             /\ ActualWorkingDir' # ActualWorkingDir
             /\ ActualWorkingDir' \in fs'
        /\ gitCall =>
             /\ calls'[Len(calls')].dir = ActualWorkingDir
             /\ \E i \in 1..Len(calls) :
                  /\ calls[i].op = "os.MkdirTemp"
                  /\ calls[i].ok
                  /\ calls[i].dir = ActualWorkingDir]_vars

\* The second run works in its own directory while keep-artifacts has left
\* the directory of the first run in place.
C26_Witness ==
  /\ runs = 2
  /\ KeepArtifacts
  /\ pc = "rebase"
  /\ fs = {1, 2}
  /\ ActualWorkingDir = 2
  /\ calls[Len(calls)].op = "Git.CreateBranch"
  /\ calls[Len(calls)].dir = 2

\* C27 as stated: any two runs of the same process that reach the Rebase
\* phase use different branch names, however short the time between them;
\* so the name a run makes is never the name made last before it.
C27_BranchNamesDiffer ==
  [][(pc = "create_branch" /\ Len(phases') > Len(phases)) =>
       <<branchName'>> # lastBranch]_vars

\* C29 as stated: in periodic mode, once cancellation has been signalled and
\* runRebaser is waiting at its select between runs, no further run is
\* started, even if a tick is pending at the same moment.
C29_NoRunAfterCancel ==
  [][(AtSelect(schedPc) /\ cancelled) => runs' = runs]_vars

\* C30 as stated: GitHub.CreatePullRequest is called in a run only if the
\* run's Git.Rebase returned no error, or it returned a conflict error and
\* at least one conflict was then extracted, every extracted conflict was
\* resolved, and the resolutions were committed.
C30_OnlyCompletedRebasePublished ==
  Called("GitHub.CreatePullRequest") =>
    LET rebase == CallsOf("Git.Rebase")[1] IN
    \/ rebase.text = nil
    \/ /\ isConflictError(rebase.text)
       /\ Len(conflicts) >= 1
       /\ \A k \in 1..Len(conflicts) :
            \E i \in 1..Len(calls) :
              /\ calls[i].op = "Git.ResolveConflict"
              /\ calls[i].ok
              /\ calls[i].file = conflicts[k].File
       /\ \E i \in 1..Len(calls) : calls[i].op = "Git.Commit" /\ calls[i].ok

\* C28 as stated: every started run eventually returns, even if a
\* collaborator operation never completes by itself and no shutdown is
\* signalled: a run that has started returns, or else shutdown is signalled.
C28_EveryRunReturns == (pc = "setup") ~> (pc = "returned" \/ cancelled)

\* C31 as stated: a run is all-or-nothing towards the remote: if
\* performRebase returns an error, no branch was pushed in that run.
C31_NoPushWhenRunFails ==
  (pc = "returned" /\ ~panicking /\ ret # nil) =>
    ~\E i \in 1..Len(calls) : calls[i].op = "Git.Push" /\ calls[i].ok

\* C32: GitHub.CreatePullRequest is called at most once per run, and only
\* directly after Git.Push and then AI.GeneratePRDescription both succeeded;
\* its head is the run's rebase branch (the branch the run created and
\* pushed) and its base is the configured branch.
C32_OnePullRequestAfterPush ==
  /\ Len(CallsOf("GitHub.CreatePullRequest")) <= 1
  /\ \A i \in 1..Len(calls) :
       calls[i].op = "GitHub.CreatePullRequest" =>
         /\ i >= 3
         /\ calls[i - 1].op = "AI.GeneratePRDescription"
         /\ calls[i - 1].ok
         /\ calls[i - 2].op = "Git.Push"
         /\ calls[i - 2].ok
         /\ calls[i - 2].num = calls[i].head
         /\ calls[i].head = branchName
         /\ \E j \in 1..(i - 3) :
              /\ calls[j].op = "Git.CreateBranch"
              /\ calls[j].ok
              /\ calls[j].num = calls[i].head
         /\ calls[i].base = GitBranch

\* The pull request of a run whose branch was made in the second second.
C32_Witness ==
  /\ pc = "notify"
  /\ \E i \in 1..Len(calls) :
       /\ calls[i].op = "GitHub.CreatePullRequest"
       /\ calls[i].ok
       /\ calls[i].head = 1
       /\ calls[i].base = "main"

\* The text AI.ResolveConflict returned for the k-th conflict of the run.
AITextFor(k) ==
  LET i == CHOOSE i \in 1..Len(calls) :
             calls[i].op = "AI.ResolveConflict" /\ calls[i].ok /\ calls[i].num = k
  IN calls[i].text

\* C33: for each conflict, Git.ResolveConflict is called with that
\* conflict's file path and exactly the text AI.ResolveConflict returned for
\* that same conflict just before; so after ResolveConflicts has succeeded
\* the content of each conflicted file is the AI's text for that file.
C33_ResolutionAppliedToItsFile ==
  /\ \A i \in 1..Len(calls) :
       calls[i].op = "Git.ResolveConflict" =>
         /\ i > 1
         /\ calls[i - 1].op = "AI.ResolveConflict"
         /\ calls[i - 1].ok
         /\ calls[i - 1].num = calls[i].num
         /\ calls[i - 1].file = conflicts[calls[i].num].File
         /\ calls[i].file = conflicts[calls[i].num].File
         /\ calls[i].text = calls[i - 1].text
  /\ "ResolveConflicts" \in phaseOk =>
       \A k \in 1..Len(conflicts) :
         tree.data[conflicts[k].File].text = AITextFor(k)

\* ResolveConflicts succeeded for two conflicts that got different texts.
C33_Witness ==
  /\ "ResolveConflicts" \in phaseOk
  /\ Len(conflicts) = 2
  /\ tree.data[conflicts[1].File].text = <<"merged-2">>
  /\ tree.data[conflicts[2].File].text = <<"merged-1">>

\* C34 as stated: when reviewers_team is configured with a plain team name
\* such as "core-team", the review request issued for the new pull request
\* names it as a team reviewer, not as an individual user.
C34_TeamRequestedAsTeam ==
  \A i \in 1..Len(calls) :
    calls[i].op = "GitHub.AddReviewers" =>
      /\ calls[i].teams = <<Chars(ReviewersTeam)>>
      /\ calls[i].users = <<>>

\* C35 as stated, its periodic half: in periodic mode, once cancellation is
\* signalled the scheduler eventually returns nil, after letting any
\* in-flight run finish (or the process has ended in a panic).
C35_ShutdownReturnsNil ==
  (cancelled /\ ~RunOnce) ~>
    (schedPc = "crashed" \/ (schedPc = "returned" /\ schedResult = nil /\ pc = "idle"))

\* C37: the cleanup of a run removes only the directory that this same run
\* created: every os.RemoveAll of a run names the directory an os.MkdirTemp of
\* that run returned; the path of an earlier run is not acted on by a later
\* run (one whose os.MkdirTemp failed, for example).
C37_CleanupOnlyOwnDirectory ==
  \A i \in 1..Len(calls) :
    calls[i].op = "os.RemoveAll" =>
      \E j \in 1..(i - 1) :
        /\ calls[j].op = "os.MkdirTemp"
        /\ calls[j].ok
        /\ calls[j].dir = calls[i].dir

\* The names of the commands of cmds, from index i on, that did not end well.
RECURSIVE FailedNames(_, _, _)
FailedNames(cmds, outs, i) ==
  IF i > Len(cmds) THEN <<>>
  ELSE (IF outs[i] # "ok" THEN <<cmds[i].Name>> ELSE <<>>) \o
       FailedNames(cmds, outs, i + 1)

NoDuplicates(q) == \A i, j \in 1..Len(q) : q[i] = q[j] => i = j

\* What C36 says of a TestResult apart from duplicates: Success is true
\* exactly when FailedTests is empty; FailedTests has the name of every failing
\* command, once for each, in the configured order; with no command
\* configured the result is a success with empty Results and FailedTests.
TestResultShape ==
  tsPc = "done" =>
    /\ tsResult.Success <=> (tsResult.FailedTests = <<>>)
    /\ tsResult.FailedTests = FailedNames(tsCommands, tsOuts, 1)
    /\ Len(tsCommands) = 0 =>
         /\ tsResult.Success
         /\ tsResult.Results = <<>>
         /\ tsResult.FailedTests = <<>>

\* C36 (as stated): every TestResult of RunTests has Success true exactly
\* when FailedTests is empty, FailedTests lists the names of the failing
\* commands in configured order without duplicates, and with no commands
\* configured the result is successful with empty Results and FailedTests.
C36_TestResultInvariant ==
  /\ TestResultShape
  /\ tsPc = "done" => NoDuplicates(tsResult.FailedTests)

\* C36 (amended): as above, but FailedTests has one entry for each failing
\* command; it is free of duplicates when the configured names of the
\* commands are all different.
C36_TestResultInvariantDistinctNames ==
  /\ TestResultShape
  /\ (tsPc = "done" /\ NoDuplicates([i \in 1..Len(tsCommands) |-> tsCommands[i].Name]))
       => NoDuplicates(tsResult.FailedTests)

C36_Witness ==
  /\ tsPc = "done"
  /\ Len(tsCommands) = 2
  /\ tsCommands[1].Name # tsCommands[2].Name
  /\ Len(tsResult.FailedTests) = 2

\* MergePullRequest got a pull request that GitHub reports as not mergeable,
\* or whose state is not open.
ReportedUnmergeable ==
  /\ mgSeen # <<>>
  /\ (mgSeen[1].Mergeable = <<FALSE>> \/ mgSeen[1].State # "open")

\* C38: MergePullRequest never issues the merge call for a pull request that
\* GitHub reports as not mergeable or whose state is not open; it returns an
\* error and leaves the pull request unchanged.
C38_NoMergeOfUnmergeable ==
  /\ \A i \in 1..Len(mgCalls) :
       mgCalls[i] = "PullRequests.Merge" => (mgSeen # <<>> /\ ~ReportedUnmergeable)
  /\ (mgPc = "done" /\ ReportedUnmergeable) =>
       /\ mgErr # nil
       /\ mgCalls = <<"PullRequests.Get">>
       /\ mgRemote.Merged = mgSeen[1].Merged

C38_Witness ==
  /\ mgPc = "done"
  /\ mgSeen # <<>>
  /\ mgSeen[1].State = "open"
  /\ mgSeen[1].Mergeable = <<FALSE>>
  /\ mgErr = <<"pull request #">> \o Itoa(mgNumber) \o <<" is not mergeable">>

====
